---- MODULE Spec2Model ----
(***************************************************************************)
(* Overwitch engine (src/src/engine.c): the status state machine, the USB  *)
(* transfer pump, the packet codec and the two worker threads, as a state  *)
(* machine.  Three threads of the program take steps: the audio/o2p-MIDI   *)
(* worker (which also runs every transfer completion callback from inside  *)
(* libusb_handle_events_completed), the p2o-MIDI pacing worker and the     *)
(* host (the caller of the public API and the owner of the ring buffers).  *)
(* The USB device ends a submitted transfer at the step in which libusb    *)
(* calls its completion callback: nothing else reads a transfer's result.  *)
(***************************************************************************)
EXTENDS Integers, Sequences, FiniteSets, TLC

(***************************************************************************)
(* Program constants.                                                      *)
(***************************************************************************)
\* ow_engine_status_t (engine.h): ERROR < STOP < READY < BOOT < WAIT < RUN
OW_ENGINE_STATUS_ERROR == -1
OW_ENGINE_STATUS_STOP == 0
OW_ENGINE_STATUS_READY == 1
OW_ENGINE_STATUS_BOOT == 2
OW_ENGINE_STATUS_WAIT == 3
OW_ENGINE_STATUS_RUN == 4

StatusValues == OW_ENGINE_STATUS_ERROR .. OW_ENGINE_STATUS_RUN

\* overbridge block geometry (engine.h / overbridge.h)
OB_FRAMES_PER_BLOCK == 7
OB_BYTES_PER_SAMPLE == 4
OB_MIDI_EVENT_SIZE == 4
\* sizeof (struct ow_midi_event): double time + 4 bytes + padding
SIZEOF_OW_MIDI_EVENT == 16
USB_BULK_MIDI_SIZE == 512

INT_MAX == 2147483647
INT_MIN == -2147483647 - 1
\* the value htobe16 (0x07ff) is taken of
BLK_HEADER == 2047
\* uint16_t usb.frames wraps at 2^16
UINT16_MOD == 65536

\* OW_ENGINE_OPTION_* bits of context->options
OPT_O2P_AUDIO == "O2P_AUDIO"
OPT_P2O_AUDIO == "P2O_AUDIO"
OPT_O2P_MIDI == "O2P_MIDI"
OPT_P2O_MIDI == "P2O_MIDI"
OPT_DLL == "DLL"
AllOptions == {OPT_O2P_AUDIO, OPT_P2O_AUDIO, OPT_O2P_MIDI, OPT_P2O_MIDI, OPT_DLL}

\* the four transfer handles of engine->usb
XFR_IN == "xfr_in"
XFR_OUT == "xfr_out"
XFR_IN_MIDI == "xfr_in_midi"
XFR_OUT_MIDI == "xfr_out_midi"
Transfers == {XFR_IN, XFR_OUT, XFR_IN_MIDI, XFR_OUT_MIDI}

(***************************************************************************)
(* Bounds of the model.                                                    *)
(***************************************************************************)
\* capacity of the host's o2p_audio ring, in frames
O2PRingFrames == 8
\* capacity of the host's p2o_audio ring, in frames
P2ORingFrames == 8
\* frames the host moves per ring operation (its period)
HostPeriodFrames == 4
\* capacity of each MIDI ring, in events
MidiRingEvents == 2
\* the host clock get_time () runs over 0 .. MaxTime
MaxTime == 1
\* events the host puts into the p2o_midi ring in one run, each stamped with
\* the time it is written at
MaxMidiProduced == 1
\* MIDI events the host writes in the runs on the four transfers
MaxMidiBurst == 2
\* MIDI events the host writes in the runs of the pacing worker
MaxPacedEvents == 3
\* failed libusb_submit_transfer calls in one run
MaxSubmitFailures == 1
\* output transfers encoded in one run of the whole engine
MaxOutTransfers == 3

(***************************************************************************)
(* Arithmetic helpers.                                                     *)
(***************************************************************************)
Abs(x) == IF x < 0 THEN -x ELSE x
Min(a, b) == IF a < b THEN a ELSE b

RECURSIVE BitLen(_)
BitLen(n) == IF n = 0 THEN 0 ELSE 1 + BitLen(n \div 2)

RECURSIVE Repeat(_, _)
Repeat(x, n) == IF n <= 0 THEN <<>> ELSE <<x>> \o Repeat(x, n - 1)

Take(s, n) == SubSeq(s, 1, Min(n, Len(s)))
Drop(s, n) == SubSeq(s, Min(n, Len(s)) + 1, Len(s))

(***************************************************************************)
(* IEEE-754 binary32 values as <<m, e>>, the number m * 2^e, m odd or      *)
(* <<0, 0>>.  A float holds 24 significant bits; results are rounded to    *)
(* nearest, ties to even.                                                  *)
(***************************************************************************)
\* the element of a one-element set: a value given this way is computed once
\* wherever it is used
Only(S) == CHOOSE x \in S : TRUE

RECURSIVE Normalize(_, _)
Normalize(m, e) ==
  IF m = 0 THEN <<0, 0>>
  ELSE IF m % 2 = 0 THEN Normalize(m \div 2, e + 1) ELSE <<m, e>>

\* m * 2^e with the factors of two moved from m into the exponent
FNorm(m, e) == Only({Normalize(mm, ee) : mm \in {m}, ee \in {e}})

FRound(m, e) ==
  LET a == Abs(m)
      k == BitLen(a) - 24
  IN IF k <= 0 THEN FNorm(m, e)
     ELSE LET q == a \div (2 ^ k)
              r == a % (2 ^ k)
              h == 2 ^ (k - 1)
              q2 == IF r > h \/ (r = h /\ q % 2 = 1) THEN q + 1 ELSE q
          IN FNorm(IF m < 0 THEN -q2 ELSE q2, e + k)

\* (float) i for an int32_t i
IntToFloat(i) == IF i = INT_MIN THEN <<-1, 31>> ELSE FRound(i, 0)

\* a * b in float arithmetic
FMul(a, b) == Only({FRound(x[1] * y[1], x[2] + y[2]) : x \in {a}, y \in {b}})

FZero == <<0, 0>>
FOne == <<1, 0>>

\* whether the float f, truncated toward zero, is an int32_t value
FitsInt32(f) ==
  \/ f[2] < 0
  \/ BitLen(Abs(f[1])) + f[2] <= 31
  \/ f = <<-1, 31>>

\* (int32_t) f for an f in range
TruncInt32(f) ==
  IF f = <<-1, 31>> THEN INT_MIN
  ELSE IF f[2] >= 0 THEN f[1] * (2 ^ f[2])
  ELSE IF -f[2] >= 31 THEN 0
  ELSE LET q == Abs(f[1]) \div (2 ^ (-f[2]))
       IN IF f[1] < 0 THEN -q ELSE q

\* what a build makes of (int32_t) f when f is out of range, which C leaves
\* undefined: cvttss2si gives INT_MIN, a saturating conversion gives the
\* nearest end of the range
CastOverflowOutcomes == {"indefinite", "saturate"}

CastInt32(f, ub) ==
  IF FitsInt32(f) THEN TruncInt32(f)
  ELSE IF ub = "saturate" /\ f[1] > 0 THEN INT_MAX ELSE INT_MIN

(***************************************************************************)
(* Big-endian words as byte tuples, in memory order.                       *)
(***************************************************************************)
htobe16(v) == <<(v \div 256) % 256, v % 256>>
be16toh(w) == w[1] * 256 + w[2]

htobe32(i) ==
  LET rest == i % (2 ^ 24)
  IN <<(i \div (2 ^ 24)) % 256, rest \div 65536, (rest \div 256) % 256, rest % 256>>

be32toh(w) ==
  (IF w[1] >= 128 THEN w[1] - 256 ELSE w[1]) * (2 ^ 24)
    + w[2] * 65536 + w[3] * 256 + w[4]

ZeroWord32 == <<0, 0, 0, 0>>

(***************************************************************************)
(* The device descriptor and the derived dimensions (ow_engine_init_mem).  *)
(***************************************************************************)
\* struct ow_device_desc: the fields the engine reads
DeviceDesc(ins, outs, scale) ==
  [inputs |-> ins, outputs |-> outs, output_track_scales |-> Repeat(scale, outs)]

\* 1.0f in every output track
UnitScale == FOne
\* 2^-31, the float nearest to 1.0 / INT_MAX
FullScale == <<1, -31>>

FramesPerTransfer(bpt) == OB_FRAMES_PER_BLOCK * bpt
P2OFrameSize(desc) == OB_BYTES_PER_SAMPLE * desc.inputs
O2PFrameSize(desc) == OB_BYTES_PER_SAMPLE * desc.outputs
P2OTransferSize(desc, bpt) == FramesPerTransfer(bpt) * P2OFrameSize(desc)
O2PTransferSize(desc, bpt) == FramesPerTransfer(bpt) * O2PFrameSize(desc)

\* struct ow_engine_usb_blk as memset leaves it
ZeroBlk(channels) ==
  [header |-> <<0, 0>>, frames |-> <<0, 0>>,
   data |-> Repeat(ZeroWord32, OB_FRAMES_PER_BLOCK * channels)]

\* usb.data_in after ow_engine_init_mem
InitDataIn(desc, bpt) == Repeat(ZeroBlk(desc.outputs), bpt)

\* the header stored in host byte order on a little-endian machine
StampHeaderHostOrder(blk) ==
  [blk EXCEPT !.header = <<BLK_HEADER % 256, BLK_HEADER \div 256>>]

\* the header stamped into an outgoing block by ow_engine_init_mem
StampHeader(blk) == [blk EXCEPT !.header = htobe16(BLK_HEADER)]

\* usb.data_out after ow_engine_init_mem: zeroed, then every header stamped
InitDataOut(desc, bpt) ==
  [i \in 1 .. bpt |-> StampHeader(ZeroBlk(desc.inputs))]

(***************************************************************************)
(* The packet codec.                                                       *)
(***************************************************************************)
\* the sample hv times its track scale, as ow_engine_read_usb_input_blocks
\* computes it
DecodeSample(w, scale) == FMul(IntToFloat(be32toh(w)), scale)

\* one block of ow_engine_read_usb_input_blocks: frames j, tracks k
DecodeBlk(blk, desc) ==
  [n \in 1 .. (OB_FRAMES_PER_BLOCK * desc.outputs) |->
     DecodeSample(blk.data[n], desc.output_track_scales[((n - 1) % desc.outputs) + 1])]

RECURSIVE DecodeBlks(_, _, _)
DecodeBlks(blks, desc, i) ==
  IF i > Len(blks) THEN <<>>
  ELSE DecodeBlk(blks[i], desc) \o DecodeBlks(blks, desc, i + 1)

\* ow_engine_read_usb_input_blocks: the new o2p_transfer_buf
ReadUsbInputBlocks(data_in, desc) == DecodeBlks(data_in, desc, 1)

\* the sample f times INT_MAX, cast to int32_t and stored big-endian, as
\* ow_engine_write_usb_output_blocks computes it
EncodeSample(f, ub) == htobe32(CastInt32(FMul(f, IntToFloat(INT_MAX)), ub))

\* the counter advanced in a type wider than 16 bits
AdvanceFramesWide(frames) == frames + OB_FRAMES_PER_BLOCK

\* engine->usb.frames += OB_FRAMES_PER_BLOCK on a uint16_t
AdvanceFrames(frames) == (frames + OB_FRAMES_PER_BLOCK) % UINT16_MOD

\* one block of ow_engine_write_usb_output_blocks: the header is left alone
EncodeBlk(blk, buf, off, frames, desc, ub) ==
  [blk EXCEPT !.frames = htobe16(frames),
              !.data = [n \in 1 .. (OB_FRAMES_PER_BLOCK * desc.inputs) |->
                          EncodeSample(buf[off + n], ub)]]

RECURSIVE EncodeBlks(_, _, _, _, _, _)
EncodeBlks(blks, buf, i, frames, desc, ub) ==
  IF i > Len(blks) THEN <<>>
  ELSE <<EncodeBlk(blks[i], buf, (i - 1) * OB_FRAMES_PER_BLOCK * desc.inputs,
                   frames, desc, ub)>>
       \o EncodeBlks(blks, buf, i + 1, AdvanceFrames(frames), desc, ub)

RECURSIVE FramesAfter(_, _)
FramesAfter(frames, n) ==
  IF n = 0 THEN frames ELSE FramesAfter(AdvanceFrames(frames), n - 1)

\* ow_engine_write_usb_output_blocks: the new usb.data_out and usb.frames
WriteUsbOutputBlocks(data_out, buf, frames, desc, ub) ==
  [data_out |-> EncodeBlks(data_out, buf, 1, frames, desc, ub),
   frames |-> FramesAfter(frames, Len(data_out))]

\* ow_bytes_to_frame_bytes
ow_bytes_to_frame_bytes(bytes, bytes_per_frame) ==
  (bytes \div bytes_per_frame) * bytes_per_frame

(***************************************************************************)
(* State.                                                                  *)
(***************************************************************************)
VARIABLES
  device_desc,          \* engine->device_desc
  blocks_per_transfer,  \* engine->blocks_per_transfer
  context,              \* the struct ow_context the host passes to activate
  activated,            \* "no", or what ow_engine_activate returned
  status,               \* engine->status
  options,              \* engine->options
  usb_frames,           \* engine->usb.frames
  data_in,              \* engine->usb.data_in, a sequence of blocks
  data_out,             \* engine->usb.data_out, a sequence of blocks
  o2p_transfer_buf,     \* floats decoded from data_in
  p2o_transfer_buf,     \* floats to encode into data_out
  p2o_resampler_buf,    \* floats read on underrun
  o2p_midi_data,        \* bulk-in buffer, a sequence of 4-byte chunks
  p2o_midi_data,        \* bulk-out buffer, the chunks before pos
  latency,              \* o2p_latency, o2p_max_latency, p2o_latency, p2o_max_latency
  reading_at_p2o_end,   \* the latch of set_usb_output_data_blks
  p2o_midi_ready,       \* engine->p2o_midi_ready
  dll,                  \* the host's DLL object: "none", "idle", "init", "inc"
  xfr,                  \* the four libusb transfers: "idle" or "inflight"
  pc_audio,             \* place of the audio/o2p-MIDI worker (run_audio_o2p_midi)
  in_status,            \* local status of set_usb_input_data_blks
  event_time,           \* event.time of cb_xfr_in_midi: <<>>, or <<t>> once sampled
  pc_midi,              \* place of the pacing worker (run_p2o_midi)
  midi,                 \* locals of run_p2o_midi: pos, last_time, diff, event_read, event
  pc_wait,              \* place of the host inside ow_engine_wait
  rings,                \* the host's four ring buffers
  now,                  \* the host clock read by get_time ()
  env,                  \* what the environment has done so far
  lock,                 \* engine->lock: "free" or the thread that holds it
  p2o_midi_lock,        \* engine->p2o_midi_lock: "free" or its holder
  construction,         \* the engine allocation, its USB session, the place in construction
  pc_op                 \* per thread, the function it is in and the operation it is at

engineVars == <<device_desc, blocks_per_transfer, context, activated, status, options>>
audioBufVars == <<usb_frames, data_in, data_out, o2p_transfer_buf, p2o_transfer_buf,
                  p2o_resampler_buf, latency, reading_at_p2o_end>>
midiBufVars == <<o2p_midi_data, p2o_midi_data, p2o_midi_ready, midi>>
threadVars == <<pc_audio, in_status, pc_midi, pc_wait>>
callbackVars == <<event_time>>
constructionVars == <<construction>>
hostVars == <<dll, rings, now, env>>
lockVars == <<lock, p2o_midi_lock, pc_op>>
vars == <<engineVars, audioBufVars, midiBufVars, threadVars, callbackVars, hostVars, xfr,
          lockVars, constructionVars>>

\* the members of struct ow_context that ow_engine_activate checks
ContextMembers ==
  {"read_space", "write_space", "read", "write", "get_time",
   "p2o_audio", "o2p_audio", "p2o_midi", "o2p_midi", "dll"}

\* a context: the option bits and the members the host left NULL
Context(opts, missing) == [options |-> opts, missing |-> missing]

ZeroFloats(n) == Repeat(FZero, n)

\* a USB-MIDI event packet and a struct ow_midi_event
Chunk(b0, b1, b2, b3) == <<b0, b1, b2, b3>>
ZeroChunk == Chunk(0, 0, 0, 0)
MidiEvent(t, bytes) == [time |-> t, bytes |-> bytes]

\* chunks of the bulk-in buffer the model keeps (the head of the 512 bytes)
MidiInChunks == 3

IdleXfr == [state |-> "idle"]

\* the threads: the caller of the API, the audio and o2p MIDI worker (it
\* also runs the callbacks), the p2o MIDI worker
Threads == {"host", "audio", "midi"}

\* the USB configuration calls of ow_engine_init in their order, each with
\* the error returned when it fails
UsbSteps ==
  << <<"libusb_set_configuration 1", "OW_USB_ERROR_CANT_SET_USB_CONFIG">>,
     <<"libusb_claim_interface 1", "OW_USB_ERROR_CANT_CLAIM_IF">>,
     <<"libusb_set_interface_alt_setting 1 3", "OW_USB_ERROR_CANT_SET_ALT_SETTING">>,
     <<"libusb_claim_interface 2", "OW_USB_ERROR_CANT_CLAIM_IF">>,
     <<"libusb_set_interface_alt_setting 2 2", "OW_USB_ERROR_CANT_SET_ALT_SETTING">>,
     <<"libusb_claim_interface 3", "OW_USB_ERROR_CANT_CLAIM_IF">>,
     <<"libusb_set_interface_alt_setting 3 0", "OW_USB_ERROR_CANT_SET_ALT_SETTING">>,
     <<"libusb_clear_halt AUDIO_IN_EP", "OW_USB_ERROR_CANT_CLEAR_EP">>,
     <<"libusb_clear_halt AUDIO_OUT_EP", "OW_USB_ERROR_CANT_CLEAR_EP">>,
     <<"libusb_clear_halt MIDI_IN_EP", "OW_USB_ERROR_CANT_CLEAR_EP">>,
     <<"libusb_clear_halt MIDI_OUT_EP", "OW_USB_ERROR_CANT_CLEAR_EP">> >>

\* the transfers prepare_transfers allocates
TransferCount == 4

\* the allocation and the USB session a successful construction leaves: the
\* engine allocated, libusb initialised, the device open and configured, the
\* transfers allocated, ow_engine_init_mem done, OW_OK returned
Built ==
  [pc |-> "returned", entry |-> "any", engine |-> "allocated", usb_context |-> "open",
   device_handle |-> "open", configured |-> Len(UsbSteps), transfers |-> TransferCount,
   shutdowns |-> 0, frees |-> 0, init_mem |-> TRUE, ret |-> "OW_OK", err |-> "OW_OK"]

\* the engine as ow_engine_init and ow_engine_init_mem leave it; engine->status
\* is never written by them, so its value st is whatever malloc returned
\* midi_events is the number of MIDI events the host of the run will produce
ConstructedFor(desc, bpt, ctx, st, midi_events) ==
  /\ device_desc = desc
  /\ blocks_per_transfer = bpt
  /\ context = ctx
  /\ activated = "no"
  /\ status = st
  /\ options = [o \in AllOptions |-> FALSE]
  /\ usb_frames = 0
  /\ data_in = InitDataIn(desc, bpt)
  /\ data_out = InitDataOut(desc, bpt)
  /\ o2p_transfer_buf = ZeroFloats(FramesPerTransfer(bpt) * desc.outputs)
  /\ p2o_transfer_buf = ZeroFloats(FramesPerTransfer(bpt) * desc.inputs)
  /\ p2o_resampler_buf = ZeroFloats(FramesPerTransfer(bpt) * desc.inputs)
  /\ o2p_midi_data = Repeat(ZeroChunk, MidiInChunks)
  /\ p2o_midi_data = <<>>
  /\ latency = [o2p |-> 0, o2p_max |-> 0, p2o |-> 0, p2o_max |-> 0]
  /\ reading_at_p2o_end = FALSE
  /\ p2o_midi_ready = FALSE
  /\ dll = IF "dll" \in ctx.missing THEN "none" ELSE "idle"
  /\ xfr = [x \in Transfers |-> IdleXfr]
  /\ pc_audio = "none"
  /\ in_status = OW_ENGINE_STATUS_STOP
  /\ event_time = <<>>
  /\ pc_midi = "none"
  /\ midi = [pos |-> 0, last_time |-> 0, diff |-> 0, event_read |-> FALSE,
             event |-> MidiEvent(0, ZeroChunk)]
  /\ pc_wait = "none"
  /\ rings = [p2o_audio |-> <<>>, o2p_audio |-> <<>>, p2o_midi |-> <<>>, o2p_midi |-> <<>>]
  /\ now = 0
  /\ lock = "free"
  /\ p2o_midi_lock = "free"
  /\ pc_op = [t \in Threads |-> [fn |-> "none", idx |-> 1]]
  /\ construction = Built
  /\ env = [stop_called |-> FALSE, submit_failures |-> 0, midi_produced |-> 0,
            midi_budget |-> midi_events, out_transfers |-> 0, joined |-> {}]

Constructed(desc, bpt, ctx, st) ==
  ConstructedFor(desc, bpt, ctx, st, MaxMidiProduced)

(***************************************************************************)
(* Status and option accessors.                                            *)
(***************************************************************************)
\* ow_engine_set_status, as called by the host's clock alignment: READY,
\* WAIT or RUN to BOOT (boot, resync), WAIT to RUN (the DLL has locked)
HostStatusMoves(st) ==
  IF st = OW_ENGINE_STATUS_WAIT THEN {OW_ENGINE_STATUS_BOOT, OW_ENGINE_STATUS_RUN}
  ELSE IF st \in {OW_ENGINE_STATUS_READY, OW_ENGINE_STATUS_RUN}
       THEN {OW_ENGINE_STATUS_BOOT}
  ELSE {}

\* the status ow_engine_stop stores
StopStatus == OW_ENGINE_STATUS_STOP

(***************************************************************************)
(* ow_engine_activate.                                                     *)
(***************************************************************************)
\* the checks of ow_engine_activate in their order: the option each belongs
\* to, the context member that must be there, the error returned without it
ActivateChecks ==
  << <<OPT_O2P_AUDIO, "write_space", "OW_INIT_ERROR_NO_WRITE_SPACE">>,
     <<OPT_O2P_AUDIO, "write", "OW_INIT_ERROR_NO_WRITE">>,
     <<OPT_O2P_AUDIO, "o2p_audio", "OW_INIT_ERROR_NO_O2P_AUDIO_BUF">>,
     <<OPT_P2O_AUDIO, "read_space", "OW_INIT_ERROR_NO_READ_SPACE">>,
     <<OPT_P2O_AUDIO, "read", "OW_INIT_ERROR_NO_READ">>,
     <<OPT_P2O_AUDIO, "p2o_audio", "OW_INIT_ERROR_NO_P2O_AUDIO_BUF">>,
     <<OPT_O2P_MIDI, "get_time", "OW_INIT_ERROR_NO_GET_TIME">>,
     <<OPT_O2P_MIDI, "o2p_midi", "OW_INIT_ERROR_NO_O2P_MIDI_BUF">>,
     <<OPT_P2O_MIDI, "get_time", "OW_INIT_ERROR_NO_GET_TIME">>,
     <<OPT_P2O_MIDI, "p2o_midi", "OW_INIT_ERROR_NO_P2O_MIDI_BUF">>,
     <<OPT_DLL, "get_time", "OW_INIT_ERROR_NO_GET_TIME">>,
     <<OPT_DLL, "dll", "OW_INIT_ERROR_NO_DLL">> >>

\* the index of the first check that fails, or 0
FirstFailedCheck(ctx) ==
  LET bad == {i \in 1 .. Len(ActivateChecks) :
                /\ ActivateChecks[i][1] \in ctx.options
                /\ ActivateChecks[i][2] \in ctx.missing}
  IN IF bad = {} THEN 0 ELSE CHOOSE i \in bad : \A j \in bad : i <= j

\* what ow_engine_activate returns before it starts any thread
ActivateResult(ctx) ==
  IF ctx.options = {} THEN "OW_GENERIC_ERROR"
  ELSE IF FirstFailedCheck(ctx) = 0 THEN "OW_OK"
  ELSE ActivateChecks[FirstFailedCheck(ctx)][3]

\* the position of an option in the order activate assigns engine->options
OptionOrder(o) ==
  CASE o = OPT_O2P_AUDIO -> 1 [] o = OPT_P2O_AUDIO -> 2 [] o = OPT_O2P_MIDI -> 3
    [] o = OPT_P2O_MIDI -> 4 [] OTHER -> 5

\* engine->options when ow_engine_activate returns: the fields assigned up to
\* the return, the others as they were
ActivateOptions(old, ctx) ==
  LET k == FirstFailedCheck(ctx)
      last == IF ctx.options = {} THEN 0
              ELSE IF k = 0 THEN 5 ELSE OptionOrder(ActivateChecks[k][1])
  IN [o \in AllOptions |-> IF OptionOrder(o) <= last THEN o \in ctx.options ELSE old[o]]

\* whether activate starts the p2o MIDI thread
StartsMidiThread(opts) == opts[OPT_P2O_MIDI]

\* whether activate starts the audio and o2p MIDI thread
StartsAudioThread(opts) ==
  opts[OPT_O2P_MIDI] \/ opts[OPT_O2P_AUDIO] \/ opts[OPT_P2O_AUDIO]

Activate ==
  /\ activated = "no"
  /\ LET res == ActivateResult(context)
         opts == ActivateOptions(options, context)
     IN /\ activated' = res
        /\ options' = opts
        /\ status' = IF res = "OW_OK" /\ opts[OPT_DLL]
                     THEN OW_ENGINE_STATUS_READY ELSE status
        /\ pc_midi' = IF res = "OW_OK" /\ StartsMidiThread(opts) THEN "init" ELSE pc_midi
        /\ pc_audio' = IF res = "OW_OK" /\ StartsAudioThread(opts) THEN "spin" ELSE pc_audio
  /\ UNCHANGED <<lockVars, construction, event_time, device_desc, blocks_per_transfer, context, audioBufVars, midiBufVars,
                 in_status, pc_wait, hostVars, xfr>>

(***************************************************************************)
(* The host: the public API and its side of the rings.                     *)
(***************************************************************************)
Active == activated = "OW_OK"

\* ow_engine_stop
Stop ==
  /\ Active
  /\ ~env.stop_called
  /\ status' = StopStatus
  /\ env' = [env EXCEPT !.stop_called = TRUE]
  /\ UNCHANGED <<lockVars, construction, event_time, device_desc, blocks_per_transfer, context, activated, options,
                 audioBufVars, midiBufVars, threadVars, dll, rings, now, xfr>>

\* ow_engine_set_status from the host that drives the DLL; it leaves the
\* status alone once it has called ow_engine_stop
HostSetStatus ==
  /\ Active
  /\ ~env.stop_called
  /\ OPT_DLL \in context.options
  /\ \E s \in HostStatusMoves(status) : status' = s
  /\ UNCHANGED <<lockVars, construction, event_time, device_desc, blocks_per_transfer, context, activated, options,
                 audioBufVars, midiBufVars, threadVars, hostVars, xfr>>

\* ow_engine_set_p2o_audio_enabled
SetP2OAudioEnabled ==
  /\ Active
  /\ ~env.stop_called
  /\ OPT_P2O_AUDIO \in context.options
  /\ \E enabled \in BOOLEAN :
       /\ options[OPT_P2O_AUDIO] # enabled
       /\ options' = [options EXCEPT ![OPT_P2O_AUDIO] = enabled]
  /\ UNCHANGED <<lockVars, construction, event_time, device_desc, blocks_per_transfer, context, activated, status,
                 audioBufVars, midiBufVars, threadVars, hostVars, xfr>>

\* the host clock advances; only the MIDI paths keep what get_time () returns
Tick ==
  /\ context.options \cap {OPT_O2P_MIDI, OPT_P2O_MIDI} # {}
  /\ now < MaxTime
  /\ now' = now + 1
  /\ UNCHANGED <<lockVars, construction, event_time, engineVars, audioBufVars, midiBufVars, threadVars, dll, rings, env, xfr>>

(***************************************************************************)
(* The host's ring buffers: byte-granular queues.  An audio ring holds     *)
(* floats (OB_BYTES_PER_SAMPLE bytes each), a MIDI ring holds struct       *)
(* ow_midi_event values (SIZEOF_OW_MIDI_EVENT bytes each).                 *)
(***************************************************************************)
AudioReadSpace(ring) == Len(ring) * OB_BYTES_PER_SAMPLE
AudioWriteSpace(ring, cap_frames, channels) ==
  cap_frames * channels * OB_BYTES_PER_SAMPLE - AudioReadSpace(ring)
\* context->read of `bytes` bytes: what is read and what stays
AudioRead(ring, bytes) ==
  [data |-> Take(ring, bytes \div OB_BYTES_PER_SAMPLE),
   ring |-> Drop(ring, bytes \div OB_BYTES_PER_SAMPLE)]
\* context->write of the floats buf
AudioWrite(ring, buf) == ring \o buf

MidiReadSpace(ring) == Len(ring) * SIZEOF_OW_MIDI_EVENT
MidiWriteSpace(ring) == (MidiRingEvents - Len(ring)) * SIZEOF_OW_MIDI_EVENT

\* samples the host plays: 0.5 and -1.0
HostSamples == {<<1, -1>>, <<-1, 0>>}

\* wire samples the device sends: INT_MAX and -INT_MAX
DeviceWords == {htobe32(INT_MAX), htobe32(-INT_MAX)}

\* a block as the device fills it: its header and counter are not the engine's
DeviceBlk(w, channels) ==
  [header |-> <<0, 0>>, frames |-> <<0, 0>>,
   data |-> Repeat(w, OB_FRAMES_PER_BLOCK * channels)]

\* bulk-in payloads the device sends: the three packets 09 90 40 7F,
\* 05 00 00 00, 08 80 40 00, and packets at the edges of the accepted range
DeviceMidiPayloads ==
  { <<Chunk(9, 144, 64, 127), Chunk(5, 0, 0, 0), Chunk(8, 128, 64, 0)>>,
    <<Chunk(7, 240, 1, 247), Chunk(15, 248, 0, 0), Chunk(16, 144, 64, 127)>> }

\* packets the host sends to the device
HostMidiBytes == {Chunk(9, 144, 60, 100)}

\* the host's audio and MIDI process: it moves data through the rings until
\* it asks the engine to stop
HostWriteP2OAudio ==
  /\ Active
  /\ ~env.stop_called
  /\ OPT_P2O_AUDIO \in context.options
  /\ AudioWriteSpace(rings.p2o_audio, P2ORingFrames, device_desc.inputs)
       >= HostPeriodFrames * P2OFrameSize(device_desc)
  /\ \E v \in HostSamples :
       rings' = [rings EXCEPT !.p2o_audio =
                   AudioWrite(@, Repeat(v, HostPeriodFrames * device_desc.inputs))]
  /\ UNCHANGED <<lockVars, construction, event_time, engineVars, audioBufVars, midiBufVars, threadVars, dll, now, env, xfr>>

HostReadO2PAudio ==
  /\ Active
  /\ ~env.stop_called
  /\ OPT_O2P_AUDIO \in context.options
  /\ AudioReadSpace(rings.o2p_audio) >= HostPeriodFrames * O2PFrameSize(device_desc)
  /\ rings' = [rings EXCEPT !.o2p_audio =
                 AudioRead(@, HostPeriodFrames * O2PFrameSize(device_desc)).ring]
  /\ UNCHANGED <<lockVars, construction, event_time, engineVars, audioBufVars, midiBufVars, threadVars, dll, now, env, xfr>>

HostWriteP2OMidi ==
  /\ Active
  /\ ~env.stop_called
  /\ OPT_P2O_MIDI \in context.options
  /\ env.midi_produced < env.midi_budget
  /\ MidiWriteSpace(rings.p2o_midi) >= SIZEOF_OW_MIDI_EVENT
  /\ \E b \in HostMidiBytes :
       rings' = [rings EXCEPT !.p2o_midi = Append(@, MidiEvent(now, b))]
  /\ env' = [env EXCEPT !.midi_produced = @ + 1]
  /\ UNCHANGED <<lockVars, construction, event_time, engineVars, audioBufVars, midiBufVars, threadVars, dll, now, xfr>>

HostReadO2PMidi ==
  /\ Active
  /\ ~env.stop_called
  /\ OPT_O2P_MIDI \in context.options
  /\ rings.o2p_midi # <<>>
  /\ rings' = [rings EXCEPT !.o2p_midi = Tail(@)]
  /\ UNCHANGED <<lockVars, construction, event_time, engineVars, audioBufVars, midiBufVars, threadVars, dll, now, env, xfr>>

(***************************************************************************)
(* prepare_cycle_in_audio, prepare_cycle_out_audio, prepare_cycle_in_midi, *)
(* prepare_cycle_out_midi: fill the transfer, submit it, and on a failed   *)
(* submission set the status to ERROR.                                     *)
(***************************************************************************)
Submitted == [state |-> "inflight"]

\* libusb_submit_transfer fails when libusb says so, and always on a handle
\* that is still submitted (LIBUSB_ERROR_BUSY)
SubmitFails(busy, fail) == fail \/ busy

\* the status after the if (err) of a prepare_cycle function
StatusAfterSubmit(st, failed) == IF failed THEN OW_ENGINE_STATUS_ERROR ELSE st

\* a prepare_cycle function on transfer x; busy: the handle is still submitted
PrepareCycle(x, busy) ==
  \E fail \in BOOLEAN :
    /\ fail => env.submit_failures < MaxSubmitFailures
    /\ xfr' = [xfr EXCEPT ![x] = IF SubmitFails(busy, fail)
                                  THEN (IF busy THEN @ ELSE IdleXfr) ELSE Submitted]
    /\ status' = StatusAfterSubmit(status, SubmitFails(busy, fail))
    /\ env' = IF fail THEN [env EXCEPT !.submit_failures = @ + 1] ELSE env

Busy(x) == xfr[x].state # "idle"

(***************************************************************************)
(* run_audio_o2p_midi: the audio and o2p MIDI worker.                      *)
(***************************************************************************)
\* while (ow_engine_get_status (engine) == OW_ENGINE_STATUS_READY);
AudioSpin ==
  /\ pc_audio = "spin"
  /\ status # OW_ENGINE_STATUS_READY
  /\ pc_audio' = "sub_in"
  /\ UNCHANGED <<lockVars, construction, event_time, engineVars, audioBufVars, midiBufVars, in_status, pc_midi, pc_wait,
                 hostVars, xfr>>

\* prepare_cycle_in_audio (engine);
AudioSubmitIn ==
  /\ pc_audio = "sub_in"
  /\ PrepareCycle(XFR_IN, Busy(XFR_IN))
  /\ pc_audio' = "sub_out"
  /\ UNCHANGED <<lockVars, construction, event_time, device_desc, blocks_per_transfer, context, activated, options,
                 audioBufVars, midiBufVars, in_status, pc_midi, pc_wait, dll, rings, now>>

\* prepare_cycle_out_audio (engine);
AudioSubmitOut ==
  /\ pc_audio = "sub_out"
  /\ PrepareCycle(XFR_OUT, Busy(XFR_OUT))
  /\ pc_audio' = "sub_midi"
  /\ UNCHANGED <<lockVars, construction, event_time, device_desc, blocks_per_transfer, context, activated, options,
                 audioBufVars, midiBufVars, in_status, pc_midi, pc_wait, dll, rings, now>>

\* if (engine->options.o2p_midi) prepare_cycle_in_midi (engine);
AudioSubmitMidi ==
  /\ pc_audio = "sub_midi"
  /\ IF options[OPT_O2P_MIDI]
     THEN PrepareCycle(XFR_IN_MIDI, Busy(XFR_IN_MIDI))
     ELSE UNCHANGED <<xfr, status, env>>
  /\ pc_audio' = "session"
  /\ UNCHANGED <<lockVars, construction, event_time, device_desc, blocks_per_transfer, context, activated, options,
                 audioBufVars, midiBufVars, in_status, pc_midi, pc_wait, dll, rings, now>>

\* whether engine->context->dll is set
HasDll(ctx) == "dll" \notin ctx.missing

\* the status the worker stores at the top of its outer loop
SessionStatus(has_dll) ==
  IF has_dll THEN OW_ENGINE_STATUS_WAIT ELSE OW_ENGINE_STATUS_RUN

\* the buffer left as it is
ClearedBufKept(buf) == buf

\* memset (engine->p2o_transfer_buf, 0, engine->p2o_transfer_size)
ClearedBuf(buf) == ZeroFloats(Len(buf))

ZeroLatency == [o2p |-> 0, o2p_max |-> 0, p2o |-> 0, p2o_max |-> 0]

\* the top of the outer loop: the counters and the latch are reset, the DLL
\* is initialised and the status becomes WAIT, or RUN without a DLL
AudioStartSession ==
  /\ pc_audio = "session"
  /\ latency' = ZeroLatency
  /\ reading_at_p2o_end' = FALSE
  /\ dll' = IF HasDll(context) THEN "init" ELSE dll
  /\ status' = SessionStatus(HasDll(context))
  /\ pc_audio' = "inner"
  /\ UNCHANGED <<lockVars, construction, event_time, device_desc, blocks_per_transfer, context, activated, options,
                 usb_frames, data_in, data_out, o2p_transfer_buf, p2o_transfer_buf,
                 p2o_resampler_buf, midiBufVars, in_status, pc_midi, pc_wait,
                 rings, now, env, xfr>>

\* while (ow_engine_get_status (engine) >= OW_ENGINE_STATUS_WAIT)
AudioInner ==
  /\ pc_audio = "inner"
  /\ pc_audio' = IF status >= OW_ENGINE_STATUS_WAIT THEN "events" ELSE "check"
  /\ UNCHANGED <<lockVars, construction, event_time, engineVars, audioBufVars, midiBufVars, in_status, pc_midi, pc_wait,
                 hostVars, xfr>>

\* libusb_handle_events_completed returns (it has a timeout of its own)
AudioEventsReturn ==
  /\ pc_audio = "events"
  /\ pc_audio' = "inner"
  /\ UNCHANGED <<lockVars, construction, event_time, engineVars, audioBufVars, midiBufVars, in_status, pc_midi, pc_wait,
                 hostVars, xfr>>

\* if (ow_engine_get_status (engine) <= OW_ENGINE_STATUS_STOP) break;
AudioCheck ==
  /\ pc_audio = "check"
  /\ pc_audio' = IF status <= OW_ENGINE_STATUS_STOP THEN "done" ELSE "resync"
  /\ UNCHANGED <<lockVars, construction, event_time, engineVars, audioBufVars, midiBufVars, in_status, pc_midi, pc_wait,
                 hostVars, xfr>>

\* the loop taken from the first submission on
OuterLoopTopAtSubmits == "sub_in"

\* where the worker goes on after a resync: the top of while (1), behind the
\* three submissions
OuterLoopTop == "session"

\* the resync at the bottom of the outer loop: whole frames are dropped from
\* the p2o ring and the p2o transfer buffer is zeroed
AudioResync ==
  /\ pc_audio = "resync"
  /\ LET rsp2o == AudioReadSpace(rings.p2o_audio)
         bytes == ow_bytes_to_frame_bytes(rsp2o, P2OFrameSize(device_desc))
     IN rings' = [rings EXCEPT !.p2o_audio = AudioRead(@, bytes).ring]
  /\ p2o_transfer_buf' = ClearedBuf(p2o_transfer_buf)
  /\ pc_audio' = OuterLoopTop
  /\ UNCHANGED <<lockVars, construction, event_time, engineVars, usb_frames, data_in, data_out, o2p_transfer_buf,
                 p2o_resampler_buf, latency, reading_at_p2o_end, midiBufVars,
                 in_status, pc_midi, pc_wait, dll, now, env, xfr>>

(***************************************************************************)
(* The completion callbacks.  libusb runs them on the audio worker, inside *)
(* libusb_handle_events_completed.                                         *)
(***************************************************************************)
\* the maximum overwritten with the current value
MaxLatencyLast(cur, max) == cur

\* the running maximum of a latency counter
MaxLatency(cur, max) == IF cur > max THEN cur ELSE max

\* a write that fills the ring with the head of the transfer when the whole
\* of it does not fit
O2PWriteWhatFits(ring, buf, wso2p, size) ==
  AudioWrite(ring, Take(buf, Min(size, wso2p) \div OB_BYTES_PER_SAMPLE))

\* the write of set_usb_input_data_blks: the whole transfer or nothing
O2PWrite(ring, buf, wso2p, size) ==
  IF size <= wso2p THEN AudioWrite(ring, buf) ELSE ring

\* whether set_usb_input_data_blks goes on to the ring with this status
PassesRunGate(st) == ~(st < OW_ENGINE_STATUS_RUN)

\* the interrupt-in transfer ends and libusb calls cb_xfr_in, here up to the
\* status gate of set_usb_input_data_blks.  On success the device has filled
\* usb.data_in: the DLL is ticked and the status is read under the lock, the
\* blocks are decoded.  A failed transfer, or a status below RUN, goes
\* straight to the resubmission
CbXfrIn ==
  /\ pc_audio = "events"
  /\ xfr[XFR_IN].state = "inflight"
  /\ \/ \E w \in DeviceWords :
          LET din == Repeat(DeviceBlk(w, device_desc.outputs), blocks_per_transfer)
          IN /\ data_in' = din
             /\ dll' = IF HasDll(context) THEN "inc" ELSE dll
             /\ o2p_transfer_buf' = ReadUsbInputBlocks(din, device_desc)
             /\ IF PassesRunGate(status)
                THEN /\ pc_audio' = "cb_in_write"
                     /\ in_status' = status
                     /\ xfr' = [xfr EXCEPT ![XFR_IN] = IdleXfr]
                     /\ UNCHANGED <<status, env>>
                ELSE /\ PrepareCycle(XFR_IN, FALSE)
                     /\ UNCHANGED <<pc_audio, in_status>>
     \/ /\ PrepareCycle(XFR_IN, FALSE)
        /\ UNCHANGED <<data_in, dll, in_status, o2p_transfer_buf, pc_audio>>
  /\ UNCHANGED <<lockVars, construction, event_time, device_desc, blocks_per_transfer, context, activated, options,
                 usb_frames, data_out, p2o_transfer_buf, p2o_resampler_buf,
                 latency, reading_at_p2o_end, midiBufVars, pc_midi, pc_wait, rings, now>>

\* the rest of cb_xfr_in: the latency is taken, the transfer buffer is written
\* to the o2p ring if it fits, and the transfer is submitted again
CbXfrInWrite ==
  /\ pc_audio = "cb_in_write"
  /\ LET rso2p == AudioReadSpace(rings.o2p_audio)
         wso2p == AudioWriteSpace(rings.o2p_audio, O2PRingFrames, device_desc.outputs)
     IN /\ latency' = [latency EXCEPT !.o2p = rso2p,
                                      !.o2p_max = MaxLatency(rso2p, @)]
        /\ rings' = [rings EXCEPT !.o2p_audio =
                       O2PWrite(@, o2p_transfer_buf, wso2p,
                                O2PTransferSize(device_desc, blocks_per_transfer))]
  /\ PrepareCycle(XFR_IN, FALSE)
  /\ pc_audio' = "events"
  /\ in_status' = OW_ENGINE_STATUS_STOP
  /\ UNCHANGED <<lockVars, construction, event_time, device_desc, blocks_per_transfer, context, activated, options,
                 usb_frames, data_in, data_out, o2p_transfer_buf, p2o_transfer_buf,
                 p2o_resampler_buf, reading_at_p2o_end, midiBufVars,
                 pc_midi, pc_wait, dll, now>>

\* p2o_data.src_ratio = (double) frames_per_transfer / frames, kept as the
\* pair of its numerator and denominator; the quotient by 0 is not finite
SrcRatio(fpt, frames) == <<fpt, frames>>

\* src_simple returns an error for a ratio that is not finite
SrcSimpleFails(ratio) == ratio[2] = 0

\* src_simple on `frames` input frames: frames_per_transfer output frames, each
\* the input frame at the same relative place; with no input frame the ratio
\* is not finite, src_simple fails and the output buffer keeps its contents
Resample(input, frames, fpt, channels, old) ==
  IF SrcSimpleFails(SrcRatio(fpt, frames)) THEN old
  ELSE [n \in 1 .. (fpt * channels) |->
          input[((((n - 1) \div channels) * frames) \div fpt) * channels
                + ((n - 1) % channels) + 1]]

\* set_usb_output_data_blks up to set_blocks: the new latch, ring, transfer
\* buffer, resampler buffer and latency counters
OutputData(enabled, latch, ring, buf, resbuf, lat, desc, bpt) ==
  LET size == P2OTransferSize(desc, bpt)
      rsp2o == AudioReadSpace(ring)
      same == [latch |-> latch, ring |-> ring, buf |-> buf, resbuf |-> resbuf,
               lat |-> lat]
  IN IF ~enabled
     THEN [same EXCEPT !.latch = FALSE, !.buf = ClearedBuf(buf)]
     ELSE IF ~latch
     THEN IF rsp2o >= size
          THEN [same EXCEPT !.latch = TRUE,
                            !.ring = AudioRead(ring,
                                       ow_bytes_to_frame_bytes(rsp2o, P2OFrameSize(desc))).ring]
          ELSE same
     ELSE LET lat2 == [lat EXCEPT !.p2o = rsp2o, !.p2o_max = MaxLatency(rsp2o, @)]
          IN IF rsp2o >= size
             THEN [same EXCEPT !.lat = lat2,
                               !.buf = AudioRead(ring, size).data,
                               !.ring = AudioRead(ring, size).ring]
             ELSE LET frames == rsp2o \div P2OFrameSize(desc)
                      rd == AudioRead(ring, frames * P2OFrameSize(desc))
                      res2 == rd.data \o Drop(resbuf, Len(rd.data))
                  IN [same EXCEPT !.lat = lat2,
                                  !.ring = rd.ring,
                                  !.resbuf = res2,
                                  !.buf = Resample(res2, frames, FramesPerTransfer(bpt),
                                                   desc.inputs, buf)]

\* set_usb_output_data_blks as a step of cb_xfr_out: it fills the transfer
\* buffer and encodes it into usb.data_out
OutHandlerStep ==
  /\ \E ub \in CastOverflowOutcomes :
       LET od == OutputData(options[OPT_P2O_AUDIO], reading_at_p2o_end, rings.p2o_audio,
                            p2o_transfer_buf, p2o_resampler_buf, latency,
                            device_desc, blocks_per_transfer)
           enc == WriteUsbOutputBlocks(data_out, od.buf, usb_frames, device_desc, ub)
       IN /\ reading_at_p2o_end' = od.latch
          /\ rings' = [rings EXCEPT !.p2o_audio = od.ring]
          /\ p2o_transfer_buf' = od.buf
          /\ p2o_resampler_buf' = od.resbuf
          /\ latency' = od.lat
          /\ data_out' = enc.data_out
          /\ usb_frames' = enc.frames
  /\ xfr' = IF pc_audio = "events" THEN [xfr EXCEPT ![XFR_OUT] = IdleXfr] ELSE xfr
  /\ env' = [env EXCEPT !.out_transfers = @ + 1]
  /\ UNCHANGED status

\* prepare_cycle_out_audio as a step of cb_xfr_out
OutSubmitStep ==
  /\ PrepareCycle(XFR_OUT, FALSE)
  /\ UNCHANGED <<usb_frames, data_out, p2o_transfer_buf, p2o_resampler_buf, latency,
                 reading_at_p2o_end, rings>>

OutStep(call) ==
  IF call = "set_usb_output_data_blks" THEN OutHandlerStep ELSE OutSubmitStep

\* the two calls the other way round
CbXfrOutCallsSubmitFirst == <<"prepare_cycle_out_audio", "set_usb_output_data_blks">>

\* the two calls of cb_xfr_out, in source order
CbXfrOutCalls == <<"set_usb_output_data_blks", "prepare_cycle_out_audio">>

\* the interrupt-out transfer ends, with success or not, and libusb calls
\* cb_xfr_out: its first call
CbXfrOut ==
  /\ pc_audio = "events"
  /\ xfr[XFR_OUT].state = "inflight"
  /\ env.out_transfers < MaxOutTransfers
  /\ OutStep(CbXfrOutCalls[1])
  /\ pc_audio' = "cb_out_submit"
  /\ UNCHANGED <<lockVars, construction, event_time, device_desc, blocks_per_transfer, context,
                 activated, options, data_in, o2p_transfer_buf, midiBufVars, in_status,
                 pc_midi, pc_wait, dll, now>>

\* the second call of cb_xfr_out, and the callback returns
CbXfrOutSubmit ==
  /\ pc_audio = "cb_out_submit"
  /\ OutStep(CbXfrOutCalls[2])
  /\ pc_audio' = "events"
  /\ UNCHANGED <<lockVars, construction, event_time, device_desc, blocks_per_transfer, context,
                 activated, options, data_in, o2p_transfer_buf, midiBufVars, in_status,
                 pc_midi, pc_wait, dll, now>>

\* the test without its upper limit
AcceptsCinNoUpperLimit(b0) == b0 >= 8

\* the test on event.bytes[0] in cb_xfr_in_midi
AcceptsCin(b0) == b0 >= 8 /\ b0 <= 15

\* the while loop of cb_xfr_in_midi from byte offset `length` on: the o2p_midi
\* ring after it.  Every accepted chunk is written with the time t if an
\* event fits, and is dropped if not
RECURSIVE MidiInLoop(_, _, _, _, _)
MidiInLoop(ring, data, length, actual_length, t) ==
  IF ~(length < actual_length) THEN ring
  ELSE LET bytes == data[(length \div OB_MIDI_EVENT_SIZE) + 1]
           fits == (MidiRingEvents - Len(ring)) * SIZEOF_OW_MIDI_EVENT
                     >= SIZEOF_OW_MIDI_EVENT
           ring2 == IF AcceptsCin(bytes[1]) /\ fits
                    THEN Append(ring, MidiEvent(t, bytes)) ELSE ring
       IN MidiInLoop(ring2, data, length + OB_MIDI_EVENT_SIZE, actual_length, t)

\* the gate letting STOP through
BelowRunErrorOnly(st) == st < OW_ENGINE_STATUS_STOP

\* whether cb_xfr_in_midi skips the transfer
BelowRun(st) == st < OW_ENGINE_STATUS_RUN

\* event.time after the status gate and the transfer-status test: get_time is
\* sampled only past the gate and only for a completed transfer
EventTime(st, completed, t) ==
  IF ~BelowRun(st) /\ completed THEN <<t>> ELSE <<>>

\* the bulk-in transfer ends with LIBUSB_TRANSFER_COMPLETED and libusb calls
\* cb_xfr_in_midi, here up to the label end.  The payload pl is at the head of
\* o2p_midi_data and the bytes behind it are those of earlier transfers
CbXfrInMidiCompleted(pl) ==
  /\ pc_audio = "events"
  /\ xfr[XFR_IN_MIDI].state = "inflight"
  /\ LET data == pl \o Drop(o2p_midi_data, Len(pl))
     IN /\ o2p_midi_data' = data
        /\ rings' = IF BelowRun(status) THEN rings
                    ELSE [rings EXCEPT !.o2p_midi =
                            MidiInLoop(@, data, 0, Len(pl) * OB_MIDI_EVENT_SIZE, now)]
  /\ event_time' = EventTime(status, TRUE, now)
  /\ xfr' = [xfr EXCEPT ![XFR_IN_MIDI] = IdleXfr]
  /\ pc_audio' = "cb_midi_submit"
  /\ UNCHANGED <<lockVars, construction, engineVars, audioBufVars, p2o_midi_data, p2o_midi_ready, midi,
                 in_status, pc_midi, pc_wait, dll, now, env>>

\* the bulk-in transfer ends with a timeout or an error
CbXfrInMidiFailed ==
  /\ pc_audio = "events"
  /\ xfr[XFR_IN_MIDI].state = "inflight"
  /\ event_time' = EventTime(status, FALSE, now)
  /\ xfr' = [xfr EXCEPT ![XFR_IN_MIDI] = IdleXfr]
  /\ pc_audio' = "cb_midi_submit"
  /\ UNCHANGED <<lockVars, construction, engineVars, audioBufVars, midiBufVars, in_status, pc_midi,
                 pc_wait, hostVars>>

CbXfrInMidi ==
  \/ \E pl \in DeviceMidiPayloads : CbXfrInMidiCompleted(pl)
  \/ CbXfrInMidiFailed

\* the label end of cb_xfr_in_midi: prepare_cycle_in_midi, and the callback
\* returns
CbXfrInMidiSubmit ==
  /\ pc_audio = "cb_midi_submit"
  /\ PrepareCycle(XFR_IN_MIDI, FALSE)
  /\ event_time' = <<>>
  /\ pc_audio' = "events"
  /\ UNCHANGED <<lockVars, construction, device_desc, blocks_per_transfer, context, activated, options,
                 audioBufVars, midiBufVars, in_status, pc_midi, pc_wait, dll, rings, now>>

\* the bulk-out transfer ends, with success or not, and libusb calls
\* cb_xfr_out_midi
CbXfrOutMidi ==
  /\ pc_audio = "events"
  /\ xfr[XFR_OUT_MIDI].state = "inflight"
  /\ p2o_midi_ready' = TRUE
  /\ xfr' = [xfr EXCEPT ![XFR_OUT_MIDI] = IdleXfr]
  /\ UNCHANGED <<lockVars, construction, event_time, engineVars, audioBufVars, o2p_midi_data, p2o_midi_data, midi,
                 threadVars, hostVars>>

(***************************************************************************)
(* run_p2o_midi: the pacing worker.                                        *)
(***************************************************************************)
\* the locals and the ready flag before the loop
MidiInit ==
  /\ pc_midi = "init"
  /\ midi' = [midi EXCEPT !.pos = 0, !.diff = 0, !.last_time = now]
  /\ p2o_midi_ready' = TRUE
  /\ pc_midi' = "acc"
  /\ UNCHANGED <<lockVars, construction, event_time, engineVars, audioBufVars, o2p_midi_data, p2o_midi_data, pc_audio,
                 in_status, pc_wait, hostVars, xfr>>

\* the condition of the accumulation loop
AccCondition(ring, pos) ==
  MidiReadSpace(ring) >= SIZEOF_OW_MIDI_EVENT /\ pos < USB_BULK_MIDI_SIZE

\* the test taken with any event whose time has been reached or not
EventTimeAheadOrEqual(time, last_time) == time >= last_time

\* if (event.time > last_time): the event read is held and the loop is left
EventTimeAhead(time, last_time) == time > last_time

\* one turn of the accumulation loop, or its end
MidiAcc ==
  /\ pc_midi = "acc"
  /\ IF AccCondition(rings.p2o_midi, midi.pos)
     THEN LET data0 == IF midi.pos = 0 THEN <<>> ELSE p2o_midi_data
              diff0 == IF midi.pos = 0 THEN 0 ELSE midi.diff
              ev == IF midi.event_read THEN midi.event ELSE Head(rings.p2o_midi)
          IN /\ rings' = IF midi.event_read THEN rings
                         ELSE [rings EXCEPT !.p2o_midi = Tail(@)]
             /\ IF EventTimeAhead(ev.time, midi.last_time)
                THEN /\ midi' = [midi EXCEPT !.diff = ev.time - midi.last_time,
                                             !.last_time = ev.time,
                                             !.event = ev, !.event_read = TRUE]
                     /\ p2o_midi_data' = data0
                     /\ pc_midi' = "flush"
                ELSE /\ midi' = [midi EXCEPT !.diff = diff0, !.event = ev,
                                             !.event_read = FALSE,
                                             !.pos = @ + OB_MIDI_EVENT_SIZE]
                     /\ p2o_midi_data' = Append(data0, ev.bytes)
                     /\ pc_midi' = "acc"
     ELSE /\ pc_midi' = "flush"
          /\ UNCHANGED <<rings, midi, p2o_midi_data>>
  /\ UNCHANGED <<lockVars, construction, event_time, engineVars, audioBufVars, o2p_midi_data, p2o_midi_ready, pc_audio,
                 in_status, pc_wait, dll, now, env, xfr>>

\* if (pos): the flag is cleared and the bulk-out transfer is submitted; then
\* the worker sleeps
MidiFlush ==
  /\ pc_midi = "flush"
  /\ IF midi.pos > 0
     THEN /\ p2o_midi_ready' = FALSE
          /\ PrepareCycle(XFR_OUT_MIDI, Busy(XFR_OUT_MIDI))
          /\ midi' = [midi EXCEPT !.pos = 0]
     ELSE UNCHANGED <<p2o_midi_ready, xfr, status, env, midi>>
  /\ pc_midi' = "poll"
  /\ UNCHANGED <<lockVars, construction, event_time, device_desc, blocks_per_transfer, context, activated, options,
                 audioBufVars, o2p_midi_data, p2o_midi_data, pc_audio, in_status,
                 pc_wait, dll, rings, now>>

\* the loop left whatever the flag says
PollExitsAtOnce(ready) == TRUE

\* whether while (!p2o_midi_ready) is left, on the value read under the lock
PollExits(ready) == ready

\* while (!p2o_midi_ready): the worker leaves the loop once the flag is set
MidiPoll ==
  /\ pc_midi = "poll"
  /\ PollExits(p2o_midi_ready)
  /\ pc_midi' = "check"
  /\ UNCHANGED <<lockVars, construction, event_time, engineVars, audioBufVars, midiBufVars, pc_audio, in_status, pc_wait,
                 hostVars, xfr>>

\* if (ow_engine_get_status (engine) <= OW_ENGINE_STATUS_STOP) break;
MidiCheck ==
  /\ pc_midi = "check"
  /\ pc_midi' = IF status <= OW_ENGINE_STATUS_STOP THEN "done" ELSE "acc"
  /\ UNCHANGED <<lockVars, construction, event_time, engineVars, audioBufVars, midiBufVars, pc_audio, in_status, pc_wait,
                 hostVars, xfr>>

(***************************************************************************)
(* ow_engine_wait.                                                         *)
(***************************************************************************)
\* whether ow_engine_wait joins the p2o MIDI thread
WaitJoinsMidi(opts) == opts[OPT_O2P_MIDI]

\* the host calls ow_engine_wait, here after it has asked the engine to stop
\* (a call made earlier blocks in the same pthread_join until then)
WaitCall ==
  /\ Active
  /\ env.stop_called
  /\ pc_wait = "none"
  /\ pc_wait' = "join_audio"
  /\ env' = [env EXCEPT !.joined = @ \cup {"audio"}]
  /\ UNCHANGED <<lockVars, construction, event_time, engineVars, audioBufVars, midiBufVars, pc_audio, in_status, pc_midi,
                 dll, rings, now, xfr>>

\* pthread_join (engine->audio_o2p_midi_thread): it returns when that thread
\* has ended.  On a handle no pthread_create has filled the call is undefined:
\* it returns at once (this step) or never does (the step is not taken)
WaitJoinAudio ==
  /\ pc_wait = "join_audio"
  /\ pc_audio \in {"none", "done"}
  /\ pc_wait' = IF WaitJoinsMidi(options) THEN "join_midi" ELSE "returned"
  /\ env' = IF WaitJoinsMidi(options) THEN [env EXCEPT !.joined = @ \cup {"midi"}] ELSE env
  /\ UNCHANGED <<lockVars, construction, event_time, engineVars, audioBufVars, midiBufVars, pc_audio, in_status, pc_midi,
                 dll, rings, now, xfr>>

\* pthread_join (engine->p2o_midi_thread)
WaitJoinMidi ==
  /\ pc_wait = "join_midi"
  /\ pc_midi \in {"none", "done"}
  /\ pc_wait' = "returned"
  /\ UNCHANGED <<lockVars, construction, event_time, engineVars, audioBufVars, midiBufVars, pc_audio, in_status, pc_midi,
                 hostVars, xfr>>

(***************************************************************************)
(* The engine as a whole.                                                  *)
(***************************************************************************)
\* the device of the runs: one input track, one output track at full scale
ModelDesc == DeviceDesc(1, 1, FullScale)

\* a context with every callback and ring, and the DLL object exactly when the
\* DLL option is set
HostContext(opts) == Context(opts, IF OPT_DLL \in opts THEN {} ELSE {"dll"})

\* the option sets of the runs: each direction alone, audio with the DLL,
\* the pacing worker beside the audio worker
HostOptionSets ==
  { {OPT_O2P_AUDIO, OPT_DLL}, {OPT_P2O_AUDIO}, {OPT_O2P_MIDI}, {OPT_P2O_MIDI},
    {OPT_O2P_AUDIO, OPT_P2O_MIDI} }

\* the contexts a host passes, one of them without the DLL object its option
\* asks for
HostContexts ==
  {HostContext(o) : o \in HostOptionSets}
    \cup {Context({OPT_O2P_AUDIO, OPT_DLL}, {"dll"})}

Init ==
  \E ctx \in HostContexts, st \in StatusValues :
    Constructed(ModelDesc, 1, ctx, st)

HostStep ==
  \/ Activate
  \/ Stop
  \/ HostSetStatus
  \/ SetP2OAudioEnabled
  \/ Tick
  \/ HostWriteP2OAudio
  \/ HostReadO2PAudio
  \/ HostWriteP2OMidi
  \/ HostReadO2PMidi
  \/ WaitCall
  \/ WaitJoinAudio
  \/ WaitJoinMidi

AudioStep ==
  \/ AudioSpin
  \/ AudioSubmitIn
  \/ AudioSubmitOut
  \/ AudioSubmitMidi
  \/ AudioStartSession
  \/ AudioInner
  \/ AudioEventsReturn
  \/ AudioCheck
  \/ AudioResync
  \/ CbXfrIn
  \/ CbXfrInWrite
  \/ CbXfrOut
  \/ CbXfrOutSubmit
  \/ CbXfrInMidi
  \/ CbXfrInMidiSubmit
  \/ CbXfrOutMidi

MidiStep ==
  \/ MidiInit
  \/ MidiAcc
  \/ MidiFlush
  \/ MidiPoll
  \/ MidiCheck

Next == HostStep \/ AudioStep \/ MidiStep

Spec == Init /\ [][Next]_vars

(***************************************************************************)
(* The o2p audio engine: the runs of an engine activated for o2p audio,    *)
(* with and without the DLL, and the steps those runs take.                *)
(***************************************************************************)
O2PAudioOptionSets == { {OPT_O2P_AUDIO, OPT_DLL}, {OPT_O2P_AUDIO} }

O2PAudioInit ==
  \E o \in O2PAudioOptionSets, st \in StatusValues :
    Constructed(ModelDesc, 1, HostContext(o), st)

\* the steps the audio worker takes by itself: its loops and the second halves
\* of the callbacks it is in
AudioWorkerStep ==
  \/ AudioSpin
  \/ AudioSubmitIn
  \/ AudioSubmitOut
  \/ AudioSubmitMidi
  \/ AudioStartSession
  \/ AudioInner
  \/ AudioEventsReturn
  \/ AudioCheck
  \/ AudioResync
  \/ CbXfrInWrite
  \/ CbXfrOutSubmit

O2PAudioNext ==
  \/ Activate
  \/ Stop
  \/ HostSetStatus
  \/ HostReadO2PAudio
  \/ WaitCall
  \/ WaitJoinAudio
  \/ AudioWorkerStep
  \/ CbXfrIn
  \/ CbXfrOut

O2PAudioSpec == O2PAudioInit /\ [][O2PAudioNext]_vars

FairOptionSets == { {OPT_O2P_AUDIO, OPT_DLL}, {OPT_P2O_MIDI} }

FairInit ==
  \E o \in FairOptionSets, st \in StatusValues :
    Constructed(ModelDesc, 1, HostContext(o), st)

\* the steps these runs can take
FairNext ==
  \/ O2PAudioNext
  \/ Tick
  \/ HostWriteP2OMidi
  \/ MidiStep

\* a transfer's callback is enabled only while the audio worker is inside
\* libusb_handle_events_completed, hence the strong fairness
Fairness ==
  /\ WF_vars(AudioWorkerStep)
  /\ WF_vars(MidiStep)
  /\ SF_vars(CbXfrIn)
  /\ SF_vars(CbXfrOut)

FairSpec == FairInit /\ [][FairNext]_vars /\ Fairness

\* the workers that ow_engine_activate started have returned
WorkersReturned ==
  /\ pc_audio \in {"none", "done"}
  /\ pc_midi \in {"none", "done"}

\* C2: under fair scheduling, once ow_engine_stop () has set the status to
\* STOP or a failed submission has set it to ERROR, every worker that
\* ow_engine_activate started eventually returns from its thread function.
C2_WorkersReturn ==
  ((env.stop_called /\ status = OW_ENGINE_STATUS_STOP)
     \/ (env.submit_failures > 0 /\ status = OW_ENGINE_STATUS_ERROR))
    ~> WorkersReturned

(***************************************************************************)
(* The packet codec by itself: samples are encoded into usb.data_out, the  *)
(* device sends the same words back in usb.data_in, and they are decoded;  *)
(* or the device sends a block of full-scale words, which is decoded.      *)
(***************************************************************************)
\* round trips in one run
MaxCodecTrips == 1

\* samples in [-1, 1]: the multiples of 1/8, and two below the quantization
\* step 2^-31
CodecSamples ==
  {FNorm(k, -3) : k \in -8 .. 8} \cup {<<1, -33>>, <<-5, -33>>}

\* descriptors with one track each way: all-ones scales, and the scale 2^-31
CodecDescs == {DeviceDesc(1, 1, UnitScale), DeviceDesc(1, 1, FullScale)}

CodecInit ==
  \E desc \in CodecDescs, st \in StatusValues :
    Constructed(desc, 1, HostContext({OPT_O2P_AUDIO, OPT_P2O_AUDIO}), st)

\* a buffer of n floats that alternates between a and b
Alternate(a, b, n) == [i \in 1 .. n |-> IF i % 2 = 1 THEN a ELSE b]

\* the device sends back the sample words of data_out in blocks of its own
Loopback(din, dout) == [i \in 1 .. Len(din) |-> [din[i] EXCEPT !.data = dout[i].data]]

\* ow_engine_write_usb_output_blocks on a buffer of samples, the words sent
\* back, ow_engine_read_usb_input_blocks on them
CodecRoundTrip ==
  /\ env.out_transfers < MaxCodecTrips
  /\ \E v1 \in CodecSamples, v2 \in CodecSamples, ub \in CastOverflowOutcomes :
       LET buf == Alternate(v1, v2, Len(p2o_transfer_buf))
           enc == WriteUsbOutputBlocks(data_out, buf, usb_frames, device_desc, ub)
           din == Loopback(data_in, enc.data_out)
       IN /\ p2o_transfer_buf' = buf
          /\ data_out' = enc.data_out
          /\ usb_frames' = enc.frames
          /\ data_in' = din
          /\ o2p_transfer_buf' = ReadUsbInputBlocks(din, device_desc)
  /\ env' = [env EXCEPT !.out_transfers = @ + 1]
  /\ UNCHANGED <<lockVars, construction, event_time, engineVars, p2o_resampler_buf, latency, reading_at_p2o_end,
                 midiBufVars, threadVars, dll, rings, now, xfr>>

\* ow_engine_read_usb_input_blocks on a block of alternating device words
CodecDecodeCrafted ==
  /\ \E w1 \in DeviceWords, w2 \in DeviceWords :
       LET din == [i \in 1 .. Len(data_in) |->
                     [data_in[i] EXCEPT !.data =
                        [n \in 1 .. Len(data_in[i].data) |-> IF n % 2 = 1 THEN w1 ELSE w2]]]
       IN /\ data_in' = din
          /\ o2p_transfer_buf' = ReadUsbInputBlocks(din, device_desc)
  /\ UNCHANGED <<lockVars, construction, event_time, engineVars, usb_frames, data_out, p2o_transfer_buf, p2o_resampler_buf,
                 latency, reading_at_p2o_end, midiBufVars, threadVars, hostVars, xfr>>

CodecNext == CodecRoundTrip \/ CodecDecodeCrafted

CodecSpec == CodecInit /\ [][CodecNext]_vars

\* the least k with |f| < 2^k (for f # 0)
Mag(f) == BitLen(Abs(f[1])) + f[2]

\* floor (f * 2^30) for an f with |f| < 2
Fix30(f) ==
  IF f[2] + 30 >= 0 THEN f[1] * (2 ^ (f[2] + 30))
  ELSE IF -(f[2] + 30) > 30 THEN (IF f[1] < 0 THEN -1 ELSE 0)
  ELSE f[1] \div (2 ^ (-(f[2] + 30)))

\* r is within 2^-29 of the sample v in [-1, 1]: a few quantization steps
NearSample(r, v) ==
  r = v \/ (r # FZero /\ Mag(r) <= 1 /\ Abs(Fix30(r) - Fix30(v)) <= 1)
         \/ (r = FZero /\ Abs(Fix30(v)) <= 1)

AllOnesScales == \A k \in 1 .. device_desc.outputs : device_desc.output_track_scales[k] = FOne

\* data_in carries the sample words of data_out
LoopedBack == \A i \in 1 .. Len(data_in) : data_in[i].data = data_out[i].data

\* C6: with every output track scale 1.0, a word be32 (INT_MAX) decodes to
\* 1.0 and a word be32 (-INT_MAX) to -1.0, and samples in [-1, 1] that were
\* encoded and sent back decode to themselves up to the quantization.
C6_CodecRoundTrip ==
  AllOnesScales =>
    /\ \A n \in 1 .. Len(o2p_transfer_buf) :
         /\ data_in[1].data[n] = htobe32(INT_MAX) => o2p_transfer_buf[n] = FOne
         /\ data_in[1].data[n] = htobe32(-INT_MAX) => o2p_transfer_buf[n] = <<-1, 0>>
    /\ LoopedBack =>
         \A n \in 1 .. Len(o2p_transfer_buf) :
           NearSample(o2p_transfer_buf[n], p2o_transfer_buf[n])

\* the sample +1.0 has been encoded as be32 (INT_MIN), the word of -1.0, and
\* with the scale 2^-31 it has come back as -1.0
C6_FullScaleSignFlip ==
  /\ ~AllOnesScales
  /\ LoopedBack
  /\ p2o_transfer_buf[1] = FOne
  /\ data_out[1].data[1] = htobe32(INT_MIN)
  /\ o2p_transfer_buf[1] = <<-1, 0>>

(***************************************************************************)
(* The outgoing blocks over a long run: ow_engine_write_usb_output_blocks   *)
(* applied again and again to usb.data_out, long enough for the 16-bit     *)
(* counter to wrap.                                                        *)
(***************************************************************************)
\* output transfers encoded in one run
MaxFrameTransfers == 4700

\* blocks per transfer of the runs
FramesBlocksPerTransfer == {1, 2}

FramesInit ==
  \E bpt \in FramesBlocksPerTransfer,
     st \in {OW_ENGINE_STATUS_WAIT, OW_ENGINE_STATUS_RUN} :
    Constructed(ModelDesc, bpt, HostContext({OPT_P2O_AUDIO}), st)

\* one call of ow_engine_write_usb_output_blocks on the transfer buffer
FramesEncode ==
  /\ env.out_transfers < MaxFrameTransfers
  /\ \E ub \in CastOverflowOutcomes :
       LET enc == WriteUsbOutputBlocks(data_out, p2o_transfer_buf, usb_frames,
                                       device_desc, ub)
       IN /\ data_out' = enc.data_out
          /\ usb_frames' = enc.frames
  /\ env' = [env EXCEPT !.out_transfers = @ + 1]
  /\ UNCHANGED <<lockVars, construction, event_time, engineVars, data_in, o2p_transfer_buf, p2o_transfer_buf,
                 p2o_resampler_buf, latency, reading_at_p2o_end, midiBufVars,
                 threadVars, dll, rings, now, xfr>>

FramesNext == FramesEncode

FramesSpec == FramesInit /\ [][FramesNext]_vars

\* the frames field of outgoing block i
BlkFrames(i) == be16toh(data_out[i].frames)

\* C7: every output transfer advances usb.frames by OB_FRAMES_PER_BLOCK *
\* blocks_per_transfer modulo 2^16 and writes into block i the counter as it
\* was before the transfer plus OB_FRAMES_PER_BLOCK * (i - 1), modulo 2^16;
\* the counter grows strictly except in the transfer in which it wraps.
C7_FramesAdvanceMod16 ==
  [][env.out_transfers' # env.out_transfers =>
       LET step == OB_FRAMES_PER_BLOCK * blocks_per_transfer
       IN /\ usb_frames' = (usb_frames + step) % UINT16_MOD
          /\ usb_frames' # usb_frames
          /\ usb_frames + step < UINT16_MOD => usb_frames' > usb_frames
          /\ \A i \in 1 .. blocks_per_transfer :
               be16toh(data_out'[i].frames)
                 = (usb_frames + OB_FRAMES_PER_BLOCK * (i - 1)) % UINT16_MOD
  ]_vars

\* the counter has wrapped in the last output transfer
C7_Wrapped ==
  /\ env.out_transfers > 0
  /\ usb_frames < OB_FRAMES_PER_BLOCK * blocks_per_transfer

\* C7 as stated: every output transfer advances usb.frames by exactly
\* OB_FRAMES_PER_BLOCK * blocks_per_transfer, and the counter written into
\* the blocks grows strictly from block to block and transfer to transfer.
C7_FramesStrictlyIncrease ==
  [][env.out_transfers' # env.out_transfers =>
       /\ usb_frames' = usb_frames + OB_FRAMES_PER_BLOCK * blocks_per_transfer
       /\ usb_frames' > usb_frames
       /\ \A i \in 1 .. blocks_per_transfer :
            /\ be16toh(data_out'[i].frames) < usb_frames'
            /\ i > 1 => be16toh(data_out'[i].frames) > be16toh(data_out'[i - 1].frames)
  ]_vars

\* C8: usb.data_out holds blocks_per_transfer blocks, each with the header
\* be16 (0x07ff); before the first encoding every frames field is 0, and
\* after an encoding block i carries the counter of the end of that
\* encoding minus OB_FRAMES_PER_BLOCK * (blocks_per_transfer - i + 1),
\* modulo 2^16, so that consecutive blocks are OB_FRAMES_PER_BLOCK apart
\* modulo 2^16.
C8_HeadersAndFrames ==
  /\ Len(data_out) = blocks_per_transfer
  /\ \A i \in 1 .. blocks_per_transfer :
       /\ data_out[i].header = <<7, 255>>
       /\ BlkFrames(i) =
            IF env.out_transfers = 0 THEN 0
            ELSE (usb_frames + UINT16_MOD
                    - OB_FRAMES_PER_BLOCK * (blocks_per_transfer - i + 1)) % UINT16_MOD
       /\ (i > 1 /\ env.out_transfers > 0) =>
            BlkFrames(i) = (BlkFrames(i - 1) + OB_FRAMES_PER_BLOCK) % UINT16_MOD

\* after the counter has wrapped, a block with its header intact carries a
\* frames field that is not a multiple of OB_FRAMES_PER_BLOCK
C8_FramesOffMultiple ==
  /\ env.out_transfers > 0
  /\ data_out[1].header = <<7, 255>>
  /\ BlkFrames(1) % OB_FRAMES_PER_BLOCK # 0

\* C8 as stated: every outgoing block has the header be16 (0x07ff) and a
\* frames field that is a multiple of OB_FRAMES_PER_BLOCK, and once the
\* blocks have been encoded consecutive blocks carry consecutive multiples.
C8_FramesAreMultiples ==
  \A i \in 1 .. blocks_per_transfer :
    /\ data_out[i].header = <<7, 255>>
    /\ BlkFrames(i) % OB_FRAMES_PER_BLOCK = 0
    /\ (i > 1 /\ env.out_transfers > 0) =>
         BlkFrames(i) = BlkFrames(i - 1) + OB_FRAMES_PER_BLOCK

(***************************************************************************)
(* The o2p MIDI engine: the runs of an engine activated for o2p MIDI,      *)
(* alone or with the DLL.  The worker still cycles the two audio           *)
(* transfers.                                                              *)
(***************************************************************************)
O2PMidiOptionSets == { {OPT_O2P_MIDI}, {OPT_O2P_MIDI, OPT_DLL} }

O2PMidiInit ==
  \E o \in O2PMidiOptionSets, st \in StatusValues :
    Constructed(ModelDesc, 1, HostContext(o), st)

O2PMidiNext ==
  \/ Activate
  \/ Stop
  \/ HostSetStatus
  \/ Tick
  \/ HostReadO2PMidi
  \/ WaitCall
  \/ WaitJoinAudio
  \/ AudioSpin
  \/ AudioSubmitIn
  \/ AudioSubmitOut
  \/ AudioSubmitMidi
  \/ AudioStartSession
  \/ AudioInner
  \/ AudioEventsReturn
  \/ AudioCheck
  \/ CbXfrIn
  \/ CbXfrInWrite
  \/ CbXfrOut
  \/ CbXfrOutSubmit
  \/ CbXfrInMidi
  \/ CbXfrInMidiSubmit

O2PMidiSpec == O2PMidiInit /\ [][O2PMidiNext]_vars

\* the chunks of the payload pl whose code index is in 0x08..0x0f, in buffer
\* order, each as an event with the time t
RECURSIVE CinEvents(_, _)
CinEvents(pl, t) ==
  IF pl = <<>> THEN <<>>
  ELSE (IF Head(pl)[1] \in 8 .. 15 THEN <<MidiEvent(t, Head(pl))>> ELSE <<>>)
         \o CinEvents(Tail(pl), t)

\* C9: a completed midi-in transfer handled at status RUN, with room in the
\* o2p_midi ring for its events, appends to the ring exactly the chunks whose
\* first byte is in 0x08..0x0f, in buffer order, all with the one time of
\* the callback, and nothing else.
C9_MidiInFilter ==
  [][\A pl \in DeviceMidiPayloads :
       (/\ CbXfrInMidiCompleted(pl)
        /\ status = OW_ENGINE_STATUS_RUN
        /\ MidiWriteSpace(rings.o2p_midi)
             >= Len(CinEvents(pl, now)) * SIZEOF_OW_MIDI_EVENT)
       => rings'.o2p_midi = rings.o2p_midi \o CinEvents(pl, now)
  ]_vars

\* the buffer 09 90 40 7F | 05 00 00 00 | 08 80 40 00 was received after the
\* clock had advanced, and the ring holds its two events with the one time
C9_TwoEventsOneTime ==
  /\ now > 0
  /\ o2p_midi_data = <<Chunk(9, 144, 64, 127), Chunk(5, 0, 0, 0), Chunk(8, 128, 64, 0)>>
  /\ rings.o2p_midi = <<MidiEvent(now, Chunk(9, 144, 64, 127)),
                        MidiEvent(now, Chunk(8, 128, 64, 0))>>

(***************************************************************************)
(* ow_engine_activate by itself, on every option bitmask and on contexts   *)
(* with nothing or one member left NULL.                                   *)
(***************************************************************************)
\* the context members the engine dereferences on behalf of an enabled
\* option: in set_usb_input_data_blks, set_usb_output_data_blks,
\* cb_xfr_in_midi, run_p2o_midi and the DLL calls
RequiredMembers(o) ==
  CASE o = OPT_O2P_AUDIO -> {"read_space", "write_space", "write", "o2p_audio"}
    [] o = OPT_P2O_AUDIO -> {"read_space", "read", "p2o_audio"}
    [] o = OPT_O2P_MIDI -> {"get_time", "write_space", "write", "o2p_midi"}
    [] o = OPT_P2O_MIDI -> {"get_time", "read_space", "read", "p2o_midi"}
    [] OTHER -> {"get_time", "dll"}

\* the contexts of the runs: any option bitmask, at most one member NULL
ActivateContexts ==
  {Context(o, m) : o \in SUBSET AllOptions,
                   m \in {{}} \cup {{x} : x \in ContextMembers}}

ActivateInit ==
  \E ctx \in ActivateContexts, st \in StatusValues :
    Constructed(ModelDesc, 1, ctx, st)

ActivateNext == Activate

ActivateSpec == ActivateInit /\ [][ActivateNext]_vars

\* the context lacks something an enabled option requires
LacksRequired(ctx) ==
  \E o \in ctx.options : RequiredMembers(o) \cap ctx.missing # {}

\* C11: once ow_engine_activate has returned, it has returned an error and
\* started no worker if the option bitmask is 0 or an enabled option lacks a
\* required callback, ring or DLL object; otherwise it has returned OW_OK and
\* started the p2o MIDI worker exactly if P2O_MIDI is enabled and the audio
\* worker exactly if O2P_AUDIO, P2O_AUDIO or O2P_MIDI is enabled.
C11_ActivateValidates ==
  activated # "no" =>
    IF context.options = {} \/ LacksRequired(context)
    THEN /\ activated # "OW_OK"
         /\ pc_audio = "none"
         /\ pc_midi = "none"
    ELSE /\ activated = "OW_OK"
         /\ (pc_midi # "none") <=> (OPT_P2O_MIDI \in context.options)
         /\ (pc_audio # "none") <=>
              (context.options \cap {OPT_O2P_AUDIO, OPT_P2O_AUDIO, OPT_O2P_MIDI} # {})

\* activate has returned OW_OK and started the audio worker for o2p MIDI on
\* a context whose write_space is NULL
C11_StartedWithoutWriteSpace ==
  /\ activated = "OW_OK"
  /\ context = Context({OPT_O2P_MIDI}, {"write_space"})
  /\ pc_audio = "spin"

(***************************************************************************)
(* The latency counters, over the runs of Spec.                            *)
(***************************************************************************)
\* the step is the reset at the top of the audio worker's outer loop
SessionReset == pc_audio = "session" /\ pc_audio' = "inner"

\* C12: within a session (no step but the reset at the top of the worker's
\* outer loop) o2p_max_latency and p2o_max_latency never decrease, and after
\* a handler has updated a latency its maximum is at least the current value.
C12_LatencyMaxima ==
  [][~SessionReset =>
       /\ latency'.o2p_max >= latency.o2p_max
       /\ latency'.p2o_max >= latency.p2o_max
       /\ latency' # latency =>
            /\ latency'.o2p_max >= latency'.o2p
            /\ latency'.p2o_max >= latency'.p2o
  ]_vars

\* a handler has stored a current o2p latency below the maximum of the
\* session
C12_MaximumKept ==
  /\ latency.o2p > 0
  /\ latency.o2p_max > latency.o2p

(***************************************************************************)
(* The boot of the audio worker: o2p audio with the DLL option, without    *)
(* it, and without it on a context that still carries a DLL object.        *)
(***************************************************************************)
BootContexts ==
  { HostContext({OPT_O2P_AUDIO, OPT_DLL}), HostContext({OPT_O2P_AUDIO}),
    Context({OPT_O2P_AUDIO}, {}) }

BootInit ==
  \E ctx \in BootContexts, st \in StatusValues :
    Constructed(ModelDesc, 1, ctx, st)

BootNext == O2PAudioNext

BootSpec == BootInit /\ [][BootNext]_vars

\* the step submits a transfer
SubmitsTransfer ==
  \E x \in Transfers : xfr[x].state # "inflight" /\ xfr'[x].state = "inflight"

\* C13: with the DLL option the status is READY after activate, the worker
\* submits nothing while the status is READY, and at the top of each
\* iteration of its outer loop it initialises the DLL and stores WAIT;
\* without the DLL option the worker does not wait in its spin and stores RUN
\* at the top of its outer loop.
C13_BootSequence ==
  [][IF OPT_DLL \in context.options
     THEN /\ (activated = "no" /\ activated' = "OW_OK")
               => status' = OW_ENGINE_STATUS_READY
          /\ SubmitsTransfer => status # OW_ENGINE_STATUS_READY
          /\ SessionReset => (dll' = "init" /\ status' = OW_ENGINE_STATUS_WAIT)
     ELSE /\ pc_audio' = "spin" => status' # OW_ENGINE_STATUS_READY
          /\ SessionReset => status' = OW_ENGINE_STATUS_RUN
  ]_vars

\* without the DLL option, on a context that carries a DLL object, the
\* worker has stored WAIT at the top of its outer loop
C13_WaitWithoutDllOption ==
  /\ OPT_DLL \notin context.options
  /\ activated = "OW_OK"
  /\ pc_audio = "inner"
  /\ status = OW_ENGINE_STATUS_WAIT

(***************************************************************************)
(* The locking discipline.  Every function of the engine is taken as the   *)
(* sequence of its operations on shared state, in source order: taking and *)
(* releasing a spin lock, reading or writing a shared field, a ring         *)
(* operation of the host, a libusb submission, another call, a branch      *)
(* that may skip the operations that follow it.  Each operation carries    *)
(* the line it is on.  The three threads run these sequences interleaved,  *)
(* one operation per step.                                                 *)
(***************************************************************************)
Op(kind, obj, line, skip) == [kind |-> kind, obj |-> obj, line |-> line, skip |-> skip]
Lk(line) == Op("lock", "lock", line, 0)
Un(line) == Op("unlock", "lock", line, 0)
LkMidi(line) == Op("lock", "p2o_midi_lock", line, 0)
UnMidi(line) == Op("unlock", "p2o_midi_lock", line, 0)
Rd(obj, line) == Op("read", obj, line, 0)
Wr(obj, line) == Op("write", obj, line, 0)
Ring(obj, line) == Op("ring", obj, line, 0)
Submit(line) == Op("submit", "libusb_submit_transfer", line, 0)
Call(obj, line) == Op("call", obj, line, 0)
Branch(line, skip) == Op("branch", "if", line, skip)
NoOp == Op("none", "none", 1, 0)

\* ow_engine_get_status, ow_engine_set_status, ow_engine_is_p2o_audio_enabled
GetStatusOps == <<Lk(1067), Rd("status", 1068), Un(1069)>>
SetStatusOps == <<Lk(1076), Wr("status", 1077), Un(1078)>>
IsP2OAudioEnabledOps == <<Lk(1085), Rd("options", 1086), Un(1087)>>

\* a prepare_cycle function: the submission, and ow_engine_set_status
\* (ERROR) if it failed
PrepareCycleOps(line) ==
  <<Submit(line), Branch(line + 1, Len(SetStatusOps))>> \o SetStatusOps

SetUsbInputDataBlksOps ==
  <<Lk(128), Call("ow_dll_overwitch_inc", 131), Rd("status", 134), Un(135),
    Call("ow_engine_read_usb_input_blocks", 137), Branch(139, 8),
    Lk(144), Ring("read_space", 146), Wr("o2p_latency", 145),
    Rd("o2p_max_latency", 147), Wr("o2p_max_latency", 149), Un(151),
    Ring("write_space", 153), Ring("write", 156)>>

SetUsbOutputDataBlksOps ==
  IsP2OAudioEnabledOps \o
  <<Ring("read_space", 204), Ring("read", 211),
    Lk(225), Wr("p2o_latency", 226), Rd("p2o_max_latency", 227),
    Wr("p2o_max_latency", 229), Un(231),
    Ring("read", 235), Ring("read", 246),
    Call("ow_engine_write_usb_output_blocks", 270)>>

\* cb_xfr_out_midi setting the flag under the engine's lock in place of
\* p2o_midi_lock
CbXfrOutMidiOpsWrongLock == <<Lk(365), Wr("p2o_midi_ready", 366), Un(367)>>

\* cb_xfr_out_midi
CbXfrOutMidiOps == <<LkMidi(365), Wr("p2o_midi_ready", 366), UnMidi(367)>>

\* ow_engine_set_p2o_audio_enabled
SetP2OAudioEnabledOps ==
  IsP2OAudioEnabledOps \o
  <<Branch(1095, 3), Lk(1097), Wr("options", 1098), Un(1099)>>

\* the operations of a function, or of a stretch of a worker's thread function
Code(fn) ==
  CASE fn = "ow_engine_activate" ->
         <<Wr("options", 913), Wr("options", 930), Wr("options", 947),
           Wr("options", 960), Wr("options", 973), Wr("status", 984),
           Rd("options", 993), Call("pthread_create", 996),
           Rd("options", 1006), Call("pthread_create", 1010)>>
    [] fn = "ow_engine_get_status" -> GetStatusOps
    [] fn = "ow_engine_set_status" -> SetStatusOps
    [] fn = "ow_engine_stop" -> SetStatusOps
    [] fn = "ow_engine_set_p2o_audio_enabled" -> SetP2OAudioEnabledOps
    [] fn = "ow_engine_wait" ->
         <<Call("pthread_join", 1027), Rd("options", 1028), Call("pthread_join", 1030)>>
    [] fn = "audio_boot" ->
         GetStatusOps \o PrepareCycleOps(403) \o PrepareCycleOps(385)
           \o <<Rd("options", 855), Branch(855, 5)>> \o PrepareCycleOps(420)
    [] fn = "audio_session" ->
         <<Wr("p2o_latency", 862), Wr("p2o_max_latency", 863),
           Wr("o2p_latency", 865), Wr("o2p_max_latency", 866),
           Lk(870), Call("ow_dll_overwitch_init", 873), Wr("status", 876), Un(882)>>
    [] fn = "audio_events" -> GetStatusOps
    [] fn = "audio_resync" ->
         GetStatusOps \o <<Ring("read_space", 894), Ring("read", 896)>>
    [] fn = "cb_xfr_in" -> SetUsbInputDataBlksOps \o PrepareCycleOps(403)
    [] fn = "cb_xfr_out" -> SetUsbOutputDataBlksOps \o PrepareCycleOps(385)
    [] fn = "cb_xfr_in_midi" ->
         GetStatusOps
           \o <<Branch(310, 3), Call("get_time", 318), Ring("write_space", 331),
                Ring("write", 334)>>
           \o PrepareCycleOps(420)
    [] fn = "cb_xfr_out_midi" -> CbXfrOutMidiOps
    [] fn = "midi_init" -> <<Call("get_time", 769), Wr("p2o_midi_ready", 770)>>
    [] fn = "midi_loop" ->
         <<Ring("read_space", 774), Ring("read", 785), Wr("p2o_midi_ready", 807)>>
           \o PrepareCycleOps(437)
           \o <<LkMidi(823), Rd("p2o_midi_ready", 824), UnMidi(825),
                LkMidi(829), Rd("p2o_midi_ready", 830), UnMidi(831)>>
           \o GetStatusOps
    [] OTHER -> <<>>

\* the functions the host may call once ow_engine_activate has returned
HostApi ==
  {"ow_engine_get_status", "ow_engine_set_status", "ow_engine_stop",
   "ow_engine_set_p2o_audio_enabled", "ow_engine_wait"}

\* the callbacks libusb_handle_events_completed may run
Callbacks == {"cb_xfr_in", "cb_xfr_out", "cb_xfr_in_midi", "cb_xfr_out_midi"}

\* what thread t may run after fn ("none": it has not begun; "returned": its
\* thread function has returned)
Flow(t, fn) ==
  CASE t = "host" /\ fn = "none" -> {"ow_engine_activate"}
    [] t = "host" /\ fn = "ow_engine_wait" -> {}
    [] t = "host" -> HostApi
    [] t = "audio" /\ fn = "none" -> {"audio_boot"}
    [] t = "audio" /\ fn = "audio_boot" -> {"audio_session"}
    [] t = "audio" /\ fn = "audio_session" -> {"audio_events"}
    [] t = "audio" /\ fn = "audio_events" -> Callbacks \cup {"audio_events", "audio_resync"}
    [] t = "audio" /\ fn \in Callbacks -> Callbacks \cup {"audio_events"}
    [] t = "audio" /\ fn = "audio_resync" -> {"audio_session", "returned"}
    [] t = "midi" /\ fn = "none" -> {"midi_init"}
    [] t = "midi" /\ fn = "midi_init" -> {"midi_loop"}
    [] t = "midi" /\ fn = "midi_loop" -> {"midi_loop", "returned"}
    [] OTHER -> {}

\* the host has passed the pthread_create of thread t in ow_engine_activate
Created(t) ==
  \/ t = "host"
  \/ pc_op["host"].fn \in HostApi
  \/ /\ pc_op["host"].fn = "ow_engine_activate"
     /\ pc_op["host"].idx > (IF t = "midi" THEN 8 ELSE 10)

\* the operation thread t is at, NoOp between two functions
CurOp(t) ==
  IF pc_op[t].idx <= Len(Code(pc_op[t].fn)) THEN Code(pc_op[t].fn)[pc_op[t].idx]
  ELSE NoOp

Advance(t, n) == pc_op' = [pc_op EXCEPT ![t].idx = @ + n]

modelVars == <<engineVars, audioBufVars, midiBufVars, threadVars, callbackVars, hostVars, xfr,
               constructionVars>>

\* thread t begins its next function
OpEnter(t) ==
  /\ CurOp(t).kind = "none"
  /\ Created(t)
  /\ \E f \in Flow(t, pc_op[t].fn) : pc_op' = [pc_op EXCEPT ![t] = [fn |-> f, idx |-> 1]]
  /\ UNCHANGED <<modelVars, lock, p2o_midi_lock>>

\* pthread_spin_lock: the thread goes on once the lock is free
OpLock(t) ==
  /\ CurOp(t).kind = "lock"
  /\ IF CurOp(t).obj = "lock"
     THEN lock = "free" /\ lock' = t /\ UNCHANGED p2o_midi_lock
     ELSE p2o_midi_lock = "free" /\ p2o_midi_lock' = t /\ UNCHANGED lock
  /\ Advance(t, 1)
  /\ UNCHANGED modelVars

\* pthread_spin_unlock
OpUnlock(t) ==
  /\ CurOp(t).kind = "unlock"
  /\ IF CurOp(t).obj = "lock"
     THEN lock' = "free" /\ UNCHANGED p2o_midi_lock
     ELSE p2o_midi_lock' = "free" /\ UNCHANGED lock
  /\ Advance(t, 1)
  /\ UNCHANGED modelVars

\* a read or a write of a shared field, a ring operation, a submission or
\* another call
OpPlain(t) ==
  /\ CurOp(t).kind \in {"read", "write", "ring", "submit", "call"}
  /\ Advance(t, 1)
  /\ UNCHANGED <<modelVars, lock, p2o_midi_lock>>

\* an if: the operations it guards are run or skipped
OpBranch(t) ==
  /\ CurOp(t).kind = "branch"
  /\ \/ Advance(t, 1)
     \/ Advance(t, 1 + CurOp(t).skip)
  /\ UNCHANGED <<modelVars, lock, p2o_midi_lock>>

LockInit ==
  \E st \in StatusValues :
    Constructed(ModelDesc, 1, HostContext(AllOptions), st)

LockNext ==
  \E t \in Threads :
    \/ OpEnter(t)
    \/ OpLock(t)
    \/ OpUnlock(t)
    \/ OpPlain(t)
    \/ OpBranch(t)

LockSpec == LockInit /\ [][LockNext]_vars

\* the fields the engine's lock guards
LockedFields ==
  {"status", "options", "o2p_latency", "o2p_max_latency", "p2o_latency",
   "p2o_max_latency"}

\* C14: a thread that is at a ring operation of the host (read, write,
\* read_space, write_space) or at a USB submission does not hold the
\* engine's lock.
C14_NoRingOrSubmitUnderLock ==
  \A t \in Threads : CurOp(t).kind \in {"ring", "submit"} => lock # t

\* the audio worker is at the read_space of set_usb_input_data_blks with the
\* engine's lock held
C14_ReadSpaceUnderLock ==
  /\ pc_op["audio"].fn = "cb_xfr_in"
  /\ CurOp("audio") = Ring("read_space", 146)
  /\ lock = "audio"

\* C15: a thread that is at a read or a write of the status, of the option
\* flags or of a latency counter or maximum holds the engine's lock.
C15_FieldsUnderLock ==
  \A t \in Threads :
    (CurOp(t).kind \in {"read", "write"} /\ CurOp(t).obj \in LockedFields)
      => lock = t

\* the audio worker is at its read of options.o2p_midi before the outer loop
\* while the host, in ow_engine_set_p2o_audio_enabled, holds the engine's
\* lock and is at its write of options.p2o_audio
C15_OptionsReadBesideWrite ==
  /\ CurOp("audio") = Rd("options", 855)
  /\ CurOp("host") = Wr("options", 1098)
  /\ lock = "host"

\* the lines of run_p2o_midi that write p2o_midi_ready: the initialisation
\* and the clearing before the submission
PacingWritesOfReady == {770, 807}

MidiInBody == pc_audio = "events" /\ pc_audio' = "cb_midi_submit"

MidiInEnd == pc_audio = "cb_midi_submit" /\ pc_audio' # "cb_midi_submit"

\* C17: a midi-in callback that reads a status below RUN writes nothing to
\* the o2p_midi ring and does not sample get_time; and every midi-in
\* callback, whatever the transfer status and the engine status, submits the
\* midi-in transfer once, as its last step: not before the label end (the
\* transfer stays idle inside the callback), and there the submission is made
\* (the transfer is in flight again, or the submission failed and the status
\* is ERROR).
C17_MidiInBelowRun ==
  [][/\ (MidiInBody /\ status < OW_ENGINE_STATUS_RUN)
          => (rings'.o2p_midi = rings.o2p_midi /\ event_time' = <<>>)
     /\ MidiInBody => xfr'[XFR_IN_MIDI] = IdleXfr
     /\ (pc_audio = "cb_midi_submit" /\ ~MidiInEnd)
          => (xfr'[XFR_IN_MIDI] = IdleXfr /\ pc_audio' = "cb_midi_submit")
     /\ MidiInEnd
          => /\ pc_audio' = "events"
             /\ \/ xfr'[XFR_IN_MIDI] = Submitted /\ status' = status
                \/ /\ xfr'[XFR_IN_MIDI] = IdleXfr
                   /\ status' = OW_ENGINE_STATUS_ERROR
                   /\ env'.submit_failures = env.submit_failures + 1
  ]_vars

\* a transfer carrying a note-on was completed while the engine waited for
\* the DLL: the callback is at its label end, the ring is empty, no time was
\* sampled
C17_SkippedAtWait ==
  /\ pc_audio = "cb_midi_submit"
  /\ status = OW_ENGINE_STATUS_WAIT
  /\ o2p_midi_data[1] = Chunk(9, 144, 64, 127)
  /\ rings.o2p_midi = <<>>
  /\ event_time = <<>>

(***************************************************************************)
(* The p2o audio engine: the runs of an engine activated for p2o audio,    *)
(* with and without the DLL, while the host writes to the ring, switches   *)
(* p2o audio off and on, and asks for resyncs.                             *)
(***************************************************************************)
P2OAudioOptionSets == { {OPT_P2O_AUDIO, OPT_DLL}, {OPT_P2O_AUDIO} }

P2OAudioInit ==
  \E o \in P2OAudioOptionSets, st \in StatusValues :
    Constructed(ModelDesc, 1, HostContext(o), st)

P2OAudioNext ==
  \/ Activate
  \/ Stop
  \/ HostSetStatus
  \/ SetP2OAudioEnabled
  \/ HostWriteP2OAudio
  \/ AudioWorkerStep
  \/ CbXfrIn
  \/ CbXfrOut

P2OAudioSpec == P2OAudioInit /\ [][P2OAudioNext]_vars

\* a step that writes usb.data_out or usb.frames
OutBufferWritten == data_out' # data_out \/ usb_frames' # usb_frames

\* C18: the audio-out transfer is never in flight while usb.data_out or
\* usb.frames is written.  The buffer is written only by the handler the
\* audio-out callback calls first, for a transfer that has ended, and the
\* transfer is still idle when the handler is done; the transfer goes back in
\* flight only in a later step, which leaves the buffer alone.
C18_OutBufferQuietInFlight ==
  [][/\ OutBufferWritten
          => /\ pc_audio = "events" /\ pc_audio' = "cb_out_submit"
             /\ xfr'[XFR_OUT] = IdleXfr
     /\ (pc_audio' = "cb_out_submit") => xfr'[XFR_OUT] = IdleXfr
     /\ (xfr[XFR_OUT] = IdleXfr /\ xfr'[XFR_OUT] = Submitted) => ~OutBufferWritten
  ]_vars

\* the handler has filled the buffer for the third time, from samples of the
\* host, and the transfer is not yet submitted again
C18_FilledBeforeResubmit ==
  /\ pc_audio = "cb_out_submit"
  /\ xfr[XFR_OUT] = IdleXfr
  /\ usb_frames = 3 * OB_FRAMES_PER_BLOCK
  /\ \E k \in 1 .. Len(data_out[1].data) : data_out[1].data[k] # ZeroWord32

\* the handler step of an audio-out callback, and the worker's session reset
OutHandlerRuns == pc_audio = "events" /\ pc_audio' = "cb_out_submit"

\* every sample of usb.data_out is zero
DataOutSilent ==
  \A i \in 1 .. Len(data_out) :
    \A k \in 1 .. Len(data_out[i].data) : data_out[i].data[k] = ZeroWord32

\* C20: the latch of the output handler.  It goes from clear to set only in
\* a handler that saw p2o audio enabled and at least p2o_transfer_size bytes
\* in the ring, and that handler drops the whole frames of the ring; every
\* handler that sees p2o audio disabled and every session reset of the
\* worker leaves it clear, and nothing else clears it; and every handler
\* that starts with the latch clear encodes only zero samples.
C20_LatchInvariant ==
  [][/\ (~reading_at_p2o_end /\ reading_at_p2o_end')
          => /\ OutHandlerRuns
             /\ options[OPT_P2O_AUDIO]
             /\ AudioReadSpace(rings.p2o_audio)
                  >= P2OTransferSize(device_desc, blocks_per_transfer)
             /\ rings'.p2o_audio
                  = Drop(rings.p2o_audio,
                         (Len(rings.p2o_audio) \div device_desc.inputs)
                           * device_desc.inputs)
     /\ (OutHandlerRuns /\ ~options[OPT_P2O_AUDIO]) => ~reading_at_p2o_end'
     /\ SessionReset => ~reading_at_p2o_end'
     /\ (reading_at_p2o_end /\ ~reading_at_p2o_end')
          => (SessionReset \/ (OutHandlerRuns /\ ~options[OPT_P2O_AUDIO]))
     /\ (OutHandlerRuns /\ ~reading_at_p2o_end) => DataOutSilent'
  ]_vars

\* the third handler of a run started with the latch clear and p2o audio
\* enabled, after an earlier one had resampled samples of the host (they are
\* still in the resampler buffer): what it encoded is silence
C20_SilentAfterResync ==
  /\ pc_audio = "cb_out_submit"
  /\ usb_frames = 3 * OB_FRAMES_PER_BLOCK
  /\ options[OPT_P2O_AUDIO]
  /\ ~reading_at_p2o_end
  /\ p2o_resampler_buf # ZeroFloats(Len(p2o_resampler_buf))
  /\ DataOutSilent

(***************************************************************************)
(* The four transfers: the runs of an engine activated for MIDI in both    *)
(* directions, with and without the DLL.  The audio worker cycles the two  *)
(* audio transfers and the midi-in transfer, the pacing worker sends the   *)
(* host's events.  The host clock stands still in these runs.              *)
(***************************************************************************)
TransfersOptionSets ==
  { {OPT_O2P_MIDI, OPT_P2O_MIDI, OPT_DLL}, {OPT_O2P_MIDI, OPT_P2O_MIDI} }

\* a device with one input track and no output track: the audio-in transfers
\* of these runs carry block headers and no samples
TransfersDesc == DeviceDesc(1, 0, FullScale)

TransfersInit ==
  \E o \in TransfersOptionSets, st \in StatusValues :
    ConstructedFor(TransfersDesc, 1, HostContext(o), st, MaxMidiBurst)

TransfersNext ==
  \/ Activate
  \/ Stop
  \/ HostSetStatus
  \/ HostWriteP2OMidi
  \/ AudioWorkerStep
  \/ CbXfrIn
  \/ CbXfrOut
  \/ CbXfrInMidi
  \/ CbXfrInMidiSubmit
  \/ CbXfrOutMidi
  \/ MidiStep

TransfersSpec == TransfersInit /\ [][TransfersNext]_vars

\* the places of the code that submit transfer x
AtSubmitSite(x) ==
  IF x = XFR_IN THEN pc_audio \in {"sub_in", "cb_in_write"}
  ELSE IF x = XFR_OUT THEN pc_audio \in {"sub_out", "cb_out_submit"}
  ELSE IF x = XFR_IN_MIDI
       THEN (pc_audio = "sub_midi" /\ options[OPT_O2P_MIDI]) \/ pc_audio = "cb_midi_submit"
  ELSE pc_midi = "flush" /\ midi.pos > 0

\* C19: no transfer is submitted while it is in flight.  Whenever a thread
\* is about to submit a transfer, that transfer is idle, and for the bulk-out
\* transfer p2o_midi_ready is set; a transfer goes from idle to in flight
\* only at the worker's submission before its outer loop or at the end of
\* its own callback, the bulk-out transfer only at the pacing worker's flush;
\* the worker reaches its three submissions once, from the spin, and a resync
\* goes on at the top of the outer loop, behind them.
C19_NoSubmitInFlight ==
  [][/\ \A x \in Transfers : AtSubmitSite(x) => xfr[x] = IdleXfr
     /\ AtSubmitSite(XFR_OUT_MIDI) => p2o_midi_ready
     /\ \A x \in Transfers :
          (xfr[x] = IdleXfr /\ xfr'[x] = Submitted) => AtSubmitSite(x)
     /\ (pc_audio' = "sub_in" /\ pc_audio # "sub_in") => pc_audio = "spin"
     /\ (pc_audio = "resync" /\ pc_audio' # "resync") => pc_audio' = "session"
  ]_vars

\* the pacing worker has submitted its second bulk-out transfer, with the
\* host's second event alone in the buffer, after the audio-out transfer had
\* been through its callback
C19_SecondBulkOut ==
  /\ pc_midi = "poll"
  /\ xfr[XFR_OUT_MIDI] = Submitted
  /\ ~p2o_midi_ready
  /\ env.midi_produced = 2
  /\ rings.p2o_midi = <<>>
  /\ Len(p2o_midi_data) = 1
  /\ usb_frames > 0
  /\ xfr[XFR_OUT] = Submitted

\* the handler step of an audio-out callback that finds p2o audio enabled
\* and the latch set
LatchedHandlerRuns ==
  OutHandlerRuns /\ reading_at_p2o_end /\ options[OPT_P2O_AUDIO]

\* the bytes the step takes from the p2o_audio ring
BytesConsumed ==
  (Len(rings.p2o_audio) - Len(rings'.p2o_audio)) * OB_BYTES_PER_SAMPLE

\* C21: in the latched state, with rsp2o bytes in the ring, the handler
\* reads exactly p2o_transfer_size bytes if rsp2o >= p2o_transfer_size;
\* otherwise it reads exactly rsp2o / p2o_frame_size whole frames and the
\* resampler, run with the ratio frames_per_transfer / frames, fills the
\* transfer buffer with frames_per_transfer frames made of the frames read;
\* the bytes consumed are always a multiple of p2o_frame_size.
C21_LatchedRead ==
  [][LatchedHandlerRuns =>
       LET rsp2o == AudioReadSpace(rings.p2o_audio)
           size == P2OTransferSize(device_desc, blocks_per_transfer)
           fsz == P2OFrameSize(device_desc)
           frames == rsp2o \div fsz
           read == Take(rings.p2o_audio, frames * device_desc.inputs)
       IN /\ BytesConsumed % fsz = 0
          /\ IF rsp2o >= size
             THEN BytesConsumed = size
             ELSE /\ BytesConsumed = frames * fsz
                  /\ ~SrcSimpleFails(SrcRatio(FramesPerTransfer(blocks_per_transfer),
                                              frames))
                  /\ Len(p2o_transfer_buf')
                       = FramesPerTransfer(blocks_per_transfer) * device_desc.inputs
                  /\ \A n \in 1 .. Len(p2o_transfer_buf') :
                       \E k \in 1 .. Len(read) : p2o_transfer_buf'[n] = read[k]
  ]_vars

\* a latched handler found the ring empty: no frame was read, and the
\* transfer buffer still holds the samples of the transfer before
C21_EmptyRingKeepsOldSamples ==
  /\ pc_audio = "cb_out_submit"
  /\ reading_at_p2o_end
  /\ options[OPT_P2O_AUDIO]
  /\ latency.p2o = 0
  /\ p2o_transfer_buf # ZeroFloats(Len(p2o_transfer_buf))

(***************************************************************************)
(* The pacing worker: the runs of an engine activated for o2p audio and    *)
(* p2o MIDI on a device that completes only its bulk-out transfers.  The   *)
(* audio worker handles the events, the host writes MIDI events stamped    *)
(* with its clock.                                                         *)
(***************************************************************************)
PacingOptionSets == { {OPT_O2P_AUDIO, OPT_P2O_MIDI} }

PacingInit ==
  \E o \in PacingOptionSets, st \in StatusValues :
    ConstructedFor(ModelDesc, 1, HostContext(o), st, MaxPacedEvents)

PacingNext ==
  \/ Activate
  \/ Stop
  \/ Tick
  \/ HostWriteP2OMidi
  \/ AudioSpin
  \/ AudioSubmitIn
  \/ AudioSubmitOut
  \/ AudioSubmitMidi
  \/ AudioStartSession
  \/ AudioInner
  \/ AudioEventsReturn
  \/ AudioCheck
  \/ CbXfrOutMidi
  \/ MidiStep

PacingSpec == PacingInit /\ [][PacingNext]_vars

\* C22: the pacing worker writes p2o_midi_data, to zero it at pos == 0 or to
\* append an event, only while no bulk-out transfer is in flight: every such
\* write is a step of its accumulation loop, taken with the bulk-out transfer
\* idle and p2o_midi_ready set; after a submission the flag is clear, and
\* the buffer stays as submitted until the callback has set it.
C22_BufferQuietInFlight ==
  [][/\ (p2o_midi_data' # p2o_midi_data)
          => /\ pc_midi = "acc"
             /\ xfr[XFR_OUT_MIDI] = IdleXfr
             /\ p2o_midi_ready
     /\ (xfr[XFR_OUT_MIDI] = Submitted) => (~p2o_midi_ready /\ pc_midi = "poll")
     /\ (pc_midi = "acc") => (p2o_midi_ready /\ xfr[XFR_OUT_MIDI] = IdleXfr)
  ]_vars

\* after the first bulk-out transfer had completed, the worker has put the
\* next event into the buffer
C22_WrittenAgainAfterCompletion ==
  /\ pc_midi = "acc"
  /\ p2o_midi_ready
  /\ xfr[XFR_OUT_MIDI] = IdleXfr
  /\ midi.pos = OB_MIDI_EVENT_SIZE
  /\ Len(p2o_midi_data) = 1
  /\ env.midi_produced = 2
  /\ rings.p2o_midi = <<>>
  /\ ~midi.event_read

(***************************************************************************)
(* The pacing worker fed with more events than one bulk-out buffer holds:  *)
(* PayloadSpec.  The host writes up to MaxPayloadEvents events while the   *)
(* clock advances; the engine is not stopped, so that a buffer can fill.   *)
(***************************************************************************)
MaxPayloadEvents == 130

PayloadInit ==
  \E o \in PacingOptionSets :
    ConstructedFor(ModelDesc, 1, HostContext(o), OW_ENGINE_STATUS_STOP, MaxPayloadEvents)

PayloadNext ==
  \/ Activate
  \/ Tick
  \/ HostWriteP2OMidi
  \/ AudioSpin
  \/ AudioSubmitIn
  \/ AudioSubmitOut
  \/ AudioSubmitMidi
  \/ AudioStartSession
  \/ AudioInner
  \/ AudioEventsReturn
  \/ CbXfrOutMidi
  \/ MidiStep

PayloadSpec == PayloadInit /\ [][PayloadNext]_vars

\* the event the accumulation loop is looking at: the one held from an
\* earlier turn, or else the head of the ring
EventInHand == IF midi.event_read THEN midi.event ELSE Head(rings.p2o_midi)

\* a turn of the accumulation loop, or its end
AccStep == pc_midi = "acc" /\ (pc_midi' # pc_midi \/ midi' # midi)

\* the accumulation loop is left in this step
PayloadCloses == pc_midi = "acc" /\ pc_midi' = "flush"

\* C23: pos is a multiple of 4 between 0 and 512; every chunk placed in the
\* buffer is the chunk of the event held, or else of the head of the ring,
\* which is consumed by that step and by no other; the loop is left exactly
\* when the event in hand is later than last_time, the ring holds no complete
\* event or 512 bytes are accumulated; what was accumulated is submitted when
\* the loop is left, and a held event is the first chunk of the next payload.
C23_PayloadComposition ==
  [][/\ midi.pos % OB_MIDI_EVENT_SIZE = 0
     /\ 0 <= midi.pos /\ midi.pos <= USB_BULK_MIDI_SIZE
     /\ (midi.pos > 0) => (Len(p2o_midi_data) * OB_MIDI_EVENT_SIZE = midi.pos)
     /\ (midi.pos' > midi.pos)
          => /\ AccStep
             /\ midi.pos' = midi.pos + OB_MIDI_EVENT_SIZE
             /\ p2o_midi_data' = Append(IF midi.pos = 0 THEN <<>> ELSE p2o_midi_data,
                                        EventInHand.bytes)
             /\ ~midi.event_read'
             /\ rings'.p2o_midi = IF midi.event_read THEN rings.p2o_midi
                                  ELSE Tail(rings.p2o_midi)
             /\ midi.event_read => (midi.pos = 0)
     /\ (Len(rings'.p2o_midi) < Len(rings.p2o_midi))
          => /\ AccStep
             /\ ~midi.event_read
             /\ rings'.p2o_midi = Tail(rings.p2o_midi)
             /\ \/ midi.pos' = midi.pos + OB_MIDI_EVENT_SIZE
                \/ /\ midi.event_read' /\ midi.event' = Head(rings.p2o_midi)
                   /\ midi.pos' = midi.pos
     /\ AccStep
          => (PayloadCloses
                <=> \/ MidiReadSpace(rings.p2o_midi) < SIZEOF_OW_MIDI_EVENT
                    \/ midi.pos = USB_BULK_MIDI_SIZE
                    \/ EventInHand.time > midi.last_time)
     /\ (PayloadCloses /\ MidiReadSpace(rings.p2o_midi) >= SIZEOF_OW_MIDI_EVENT
                       /\ midi.pos < USB_BULK_MIDI_SIZE)
          => (midi.event_read' /\ midi.event' = EventInHand /\ midi.pos' = midi.pos)
     /\ (pc_midi = "flush" /\ pc_midi' # pc_midi)
          => /\ midi.pos' = 0
             /\ p2o_midi_data' = p2o_midi_data
             /\ (p2o_midi_ready /\ ~p2o_midi_ready') <=> (midi.pos > 0)
             /\ (xfr'[XFR_OUT_MIDI] # xfr[XFR_OUT_MIDI]) => (midi.pos > 0)
     /\ (p2o_midi_ready /\ ~p2o_midi_ready') => (pc_midi = "flush")
    ]_vars

\* 512 bytes are accumulated and close the payload, an event still in the ring
C23_FullPayload ==
  /\ pc_midi = "flush"
  /\ midi.pos = USB_BULK_MIDI_SIZE
  /\ Len(p2o_midi_data) * OB_MIDI_EVENT_SIZE = USB_BULK_MIDI_SIZE
  /\ rings.p2o_midi # <<>>
  /\ ~midi.event_read
  /\ midi.last_time = MaxTime

(***************************************************************************)
(* PacingSpec with fair scheduling: each thread that can take a step       *)
(* eventually takes one, and a bulk-out transfer in flight completes.      *)
(* Neither the host nor the clock is obliged to act.                       *)
(***************************************************************************)
PacingAudioStep ==
  \/ AudioSpin
  \/ AudioSubmitIn
  \/ AudioSubmitOut
  \/ AudioSubmitMidi
  \/ AudioStartSession
  \/ AudioInner
  \/ AudioEventsReturn
  \/ AudioCheck

PacingFairness ==
  /\ WF_vars(PacingAudioStep)
  /\ WF_vars(MidiStep)
  /\ SF_vars(CbXfrOutMidi)

PacingFairSpec == PacingInit /\ [][PacingNext]_vars /\ PacingFairness

\* C24: an event the pacing worker has read and holds as read-ahead is
\* eventually copied to the bulk-out buffer (the step before its submission)
\* unless the status leaves RUN, whether or not the host writes again.
C24_HeldEventSubmitted ==
  (midi.event_read /\ status = OW_ENGINE_STATUS_RUN)
    ~> (~midi.event_read \/ status # OW_ENGINE_STATUS_RUN)

\* the worker is back at the accumulation loop with the event held, the ring
\* empty and the host done writing
C24_HeldWithEmptyRing ==
  /\ pc_midi = "acc"
  /\ midi.event_read
  /\ midi.pos = 0
  /\ rings.p2o_midi = <<>>
  /\ env.midi_produced = env.midi_budget
  /\ xfr[XFR_OUT_MIDI] = IdleXfr
  /\ p2o_midi_ready
  /\ status = OW_ENGINE_STATUS_RUN

(***************************************************************************)
(* Construction: ow_engine_init_from_libusb_device_descriptor,             *)
(* ow_engine_init_from_bus_address and ow_engine_init, checked under       *)
(* ConstructionSpec.  Every libusb call and every allocation of transfers  *)
(* may fail.                                                               *)
(***************************************************************************)
\* the blocks_per_transfer argument of the entry points
ConstructionBlocks == 1

\* nothing allocated yet, no entry point called
NotBuilt ==
  [pc |-> "start", entry |-> "none", engine |-> "none", usb_context |-> "none",
   device_handle |-> "none", configured |-> 0, transfers |-> 0,
   shutdowns |-> 0, frees |-> 0, init_mem |-> FALSE, ret |-> "none", err |-> "OW_OK"]

\* the state before construction: no buffer exists; the members construction
\* never writes have the values the runs start from
BeforeConstruction(desc, ctx, st) ==
  /\ device_desc = desc
  /\ blocks_per_transfer = 0
  /\ context = ctx
  /\ activated = "no"
  /\ status = st
  /\ options = [o \in AllOptions |-> FALSE]
  /\ usb_frames = 0
  /\ data_in = <<>>
  /\ data_out = <<>>
  /\ o2p_transfer_buf = <<>>
  /\ p2o_transfer_buf = <<>>
  /\ p2o_resampler_buf = <<>>
  /\ o2p_midi_data = <<>>
  /\ p2o_midi_data = <<>>
  /\ latency = [o2p |-> 0, o2p_max |-> 0, p2o |-> 0, p2o_max |-> 0]
  /\ reading_at_p2o_end = FALSE
  /\ p2o_midi_ready = FALSE
  /\ dll = IF "dll" \in ctx.missing THEN "none" ELSE "idle"
  /\ xfr = [x \in Transfers |-> IdleXfr]
  /\ pc_audio = "none"
  /\ in_status = OW_ENGINE_STATUS_STOP
  /\ event_time = <<>>
  /\ pc_midi = "none"
  /\ midi = [pos |-> 0, last_time |-> 0, diff |-> 0, event_read |-> FALSE,
             event |-> MidiEvent(0, ZeroChunk)]
  /\ pc_wait = "none"
  /\ rings = [p2o_audio |-> <<>>, o2p_audio |-> <<>>, p2o_midi |-> <<>>, o2p_midi |-> <<>>]
  /\ now = 0
  /\ lock = "free"
  /\ p2o_midi_lock = "free"
  /\ pc_op = [t \in Threads |-> [fn |-> "none", idx |-> 1]]
  /\ construction = NotBuilt
  /\ env = [stop_called |-> FALSE, submit_failures |-> 0, midi_produced |-> 0,
            midi_budget |-> MaxMidiProduced, out_transfers |-> 0, joined |-> {}]

\* every variable but construction
builtVars == <<engineVars, audioBufVars, midiBufVars, threadVars, callbackVars, hostVars, xfr,
               lockVars>>

\* free (engine): the allocation is released; a second free of the same
\* pointer is undefined, the allocator aborts the process or lets it go on
Free(c, next) ==
  IF c.engine = "freed"
  THEN { [c EXCEPT !.frees = @ + 1, !.pc = p] : p \in {"aborted", next} }
  ELSE { [c EXCEPT !.frees = @ + 1, !.engine = "freed", !.pc = next] }

\* usb_shutdown: libusb_close and libusb_exit
UsbShutdown(c) ==
  [c EXCEPT !.device_handle = "closed", !.usb_context = "closed", !.shutdowns = @ + 1]

\* ow_engine_init_from_libusb_device_descriptor up to libusb_init
InitFromLibusbDeviceDescriptor ==
  /\ construction.pc = "start"
  /\ \E outcome \in {"set_option_fails", "libusb_init_fails", "ok"} :
       construction' =
         IF outcome = "set_option_fails"
         THEN [construction EXCEPT !.entry = "descriptor", !.pc = "returned",
                                   !.ret = "OW_USB_ERROR_LIBUSB_INIT_FAILED"]
         ELSE IF outcome = "libusb_init_fails"
         THEN [construction EXCEPT !.entry = "descriptor", !.engine = "allocated",
                                   !.err = "OW_USB_ERROR_LIBUSB_INIT_FAILED",
                                   !.pc = "error"]
         ELSE [construction EXCEPT !.entry = "descriptor", !.engine = "allocated",
                                   !.usb_context = "open", !.pc = "wrap"]
  /\ UNCHANGED builtVars

\* libusb_wrap_sys_device, then the call of ow_engine_init
DescriptorWrap ==
  /\ construction.pc = "wrap"
  /\ \E ok \in BOOLEAN :
       construction' =
         IF ok THEN [construction EXCEPT !.device_handle = "open", !.pc = "usb"]
         ELSE [construction EXCEPT !.err = "OW_USB_ERROR_LIBUSB_INIT_FAILED",
                                   !.pc = "error"]
  /\ UNCHANGED builtVars

\* ow_engine_init_from_bus_address up to libusb_init
InitFromBusAddress ==
  /\ construction.pc = "start"
  /\ \E ok \in BOOLEAN :
       construction' =
         IF ok THEN [construction EXCEPT !.entry = "bus_address", !.engine = "allocated",
                                         !.usb_context = "open", !.pc = "find"]
         ELSE [construction EXCEPT !.entry = "bus_address", !.engine = "allocated",
                                   !.err = "OW_USB_ERROR_LIBUSB_INIT_FAILED",
                                   !.pc = "error"]
  /\ UNCHANGED builtVars

\* the search of the device list and libusb_open, then the call of
\* ow_engine_init
BusFind ==
  /\ construction.pc = "find"
  /\ \E opened \in BOOLEAN :
       construction' =
         IF opened THEN [construction EXCEPT !.device_handle = "open", !.pc = "usb"]
         ELSE [construction EXCEPT !.err = "OW_USB_ERROR_CANT_FIND_DEV", !.pc = "error"]
  /\ UNCHANGED builtVars

\* ow_engine_init: the next USB configuration call; a failure jumps to end
EngineInitUsbStep ==
  /\ construction.pc = "usb"
  /\ construction.configured < Len(UsbSteps)
  /\ \E ok \in BOOLEAN :
       construction' =
         IF ok THEN [construction EXCEPT !.configured = @ + 1]
         ELSE [construction EXCEPT !.err = UsbSteps[construction.configured + 1][2],
                                   !.pc = "end"]
  /\ UNCHANGED builtVars

\* prepare_transfers: it returns at the first libusb_alloc_transfer that
\* fails, after n allocations
PrepareTransfers ==
  /\ construction.pc = "usb"
  /\ construction.configured = Len(UsbSteps)
  /\ \E n \in 0..TransferCount :
       construction' =
         [construction EXCEPT !.transfers = n,
                              !.err = IF n = TransferCount THEN "OW_OK"
                                      ELSE "OW_USB_ERROR_CANT_PREPARE_TRANSFER",
                              !.pc = "end"]
  /\ UNCHANGED builtVars

\* the end of ow_engine_init: ow_engine_init_mem, or usb_shutdown and free
EngineInitEnd ==
  /\ construction.pc = "end"
  /\ IF construction.err = "OW_OK"
     THEN /\ construction' = [construction EXCEPT !.init_mem = TRUE, !.pc = "after_init"]
          /\ lock' = "free"
          /\ blocks_per_transfer' = ConstructionBlocks
          /\ usb_frames' = 0
          /\ data_in' = InitDataIn(device_desc, ConstructionBlocks)
          /\ data_out' = InitDataOut(device_desc, ConstructionBlocks)
          /\ o2p_transfer_buf'
               = ZeroFloats(FramesPerTransfer(ConstructionBlocks) * device_desc.outputs)
          /\ p2o_transfer_buf'
               = ZeroFloats(FramesPerTransfer(ConstructionBlocks) * device_desc.inputs)
          /\ p2o_resampler_buf'
               = ZeroFloats(FramesPerTransfer(ConstructionBlocks) * device_desc.inputs)
          /\ p2o_midi_data' = <<>>
          /\ o2p_midi_data' = Repeat(ZeroChunk, MidiInChunks)
          /\ p2o_midi_lock' = "free"
     ELSE /\ construction' \in Free(UsbShutdown(construction), "after_init")
          /\ UNCHANGED <<lock, blocks_per_transfer, usb_frames, data_in, data_out,
                         o2p_transfer_buf, p2o_transfer_buf, p2o_resampler_buf,
                         p2o_midi_data, o2p_midi_data, p2o_midi_lock>>
  /\ UNCHANGED <<device_desc, context, activated, status, options, latency,
                 reading_at_p2o_end, p2o_midi_ready, midi, threadVars, callbackVars,
                 hostVars, xfr, pc_op>>

\* what the entry point does with the value of ow_engine_init: the bus and
\* address entry returns it; the descriptor entry returns OW_OK, or goes on
\* to its error label
AfterEngineInit ==
  /\ construction.pc = "after_init"
  /\ construction' =
       IF construction.entry = "bus_address" \/ construction.err = "OW_OK"
       THEN [construction EXCEPT !.ret = construction.err, !.pc = "returned"]
       ELSE [construction EXCEPT !.pc = "error"]
  /\ UNCHANGED builtVars

\* the error label of the entry points: free (engine); return err
ErrorLabel ==
  /\ construction.pc = "error"
  /\ construction' \in Free([construction EXCEPT !.ret = construction.err], "returned")
  /\ UNCHANGED builtVars

ConstructionInit ==
  \E ctx \in HostContexts, st \in StatusValues :
    BeforeConstruction(ModelDesc, ctx, st)

ConstructionNext ==
  \/ InitFromLibusbDeviceDescriptor
  \/ DescriptorWrap
  \/ InitFromBusAddress
  \/ BusFind
  \/ EngineInitUsbStep
  \/ PrepareTransfers
  \/ EngineInitEnd
  \/ AfterEngineInit
  \/ ErrorLabel

ConstructionSpec == ConstructionInit /\ [][ConstructionNext]_vars

\* construction has ended on a failure of a USB configuration call or of
\* prepare_transfers
FailedInEngineInit ==
  /\ construction.pc \in {"returned", "aborted"}
  /\ construction.configured < Len(UsbSteps) \/ construction.transfers < TransferCount
  /\ construction.device_handle # "none"
  /\ construction.err # "OW_OK"
  /\ construction.err # "OW_USB_ERROR_LIBUSB_INIT_FAILED"
  /\ construction.err # "OW_USB_ERROR_CANT_FIND_DEV"

\* C25: when ow_engine_init fails, through either entry point, the error is
\* returned, usb_shutdown has run once, the engine has been freed exactly
\* once, and no buffer has been allocated nor any header stamped.
C25_FailureFreesOnce ==
  FailedInEngineInit
    => /\ construction.pc = "returned"
       /\ construction.ret = construction.err
       /\ construction.shutdowns = 1
       /\ construction.frees = 1
       /\ construction.engine = "freed"
       /\ ~construction.init_mem
       /\ data_out = <<>> /\ data_in = <<>> /\ p2o_transfer_buf = <<>>

\* the descriptor entry point, after a failed libusb_set_configuration, has
\* freed the engine in ow_engine_init and again at its error label
C25_DescriptorFreesTwice ==
  /\ FailedInEngineInit
  /\ construction.entry = "descriptor"
  /\ construction.err = "OW_USB_ERROR_CANT_SET_USB_CONFIG"
  /\ construction.shutdowns = 1
  /\ construction.frees = 2
  /\ data_out = <<>>

(***************************************************************************)
(* Claims on the status state machine, checked under Spec.                 *)
(***************************************************************************)
\* C1: after ow_engine_stop () has been called, ow_engine_get_status ()
\* never returns a value greater than STOP (READY, BOOT, WAIT or RUN),
\* wherever the audio worker was when the call was made.
C1_StopIsFinal ==
  env.stop_called => status <= OW_ENGINE_STATUS_STOP

\* C3: once a failed submission has set the status to ERROR, no step sets it
\* to a value greater than STOP (WAIT or RUN).
C3_ErrorIsFinal ==
  [][(env.submit_failures > 0 /\ status = OW_ENGINE_STATUS_ERROR)
       => status' <= OW_ENGINE_STATUS_STOP]_vars

\* C4: with the DLL option, the audio-in handler writes no samples to the
\* o2p_audio ring at a step taken while the engine status is READY, BOOT or
\* WAIT.
C4_WriteOnlyAtRun ==
  [][(options[OPT_DLL] /\ pc_audio = "cb_in_write"
        /\ Len(rings'.o2p_audio) > Len(rings.o2p_audio))
       => status \notin {OW_ENGINE_STATUS_READY, OW_ENGINE_STATUS_BOOT,
                         OW_ENGINE_STATUS_WAIT}]_vars

\* C10: ow_engine_wait () joins only threads that ow_engine_activate started,
\* and when it has returned it has joined the pacing worker exactly if that
\* worker was started, and every started worker has ended.
C10_WaitJoinsStarted ==
  /\ "audio" \in env.joined => pc_audio # "none"
  /\ "midi" \in env.joined => pc_midi # "none"
  /\ pc_wait = "returned" =>
       /\ ("midi" \in env.joined) <=> (pc_midi # "none")
       /\ pc_audio \in {"none", "done"}
       /\ pc_midi \in {"none", "done"}

(***************************************************************************)
(* The members of struct ow_context the workers and the callbacks use,     *)
(* against those ow_engine_activate has checked; checked under Spec.       *)
(***************************************************************************)
\* the members ow_engine_activate has found present when it returns OW_OK
\* for the option set opts
CheckedMembers(opts) ==
  {ActivateChecks[i][2] : i \in {j \in 1 .. Len(ActivateChecks) : ActivateChecks[j][1] \in opts}}

\* set_usb_input_data_blks past its status gate: read_space, write_space and
\* write on the o2p_audio ring
InputHandlerUses ==
  IF pc_audio = "cb_in_write" THEN {"read_space", "write_space", "write", "o2p_audio"}
  ELSE {}

\* the DLL object, when the context has one, and get_time: the session start
\* and the head of set_usb_input_data_blks
DllUses == IF dll \in {"init", "inc"} THEN {"dll", "get_time"} ELSE {}

\* the resync of run_audio_o2p_midi: read_space and read on the p2o_audio ring
ResyncUses == IF pc_audio = "resync" THEN {"read_space", "read", "p2o_audio"} ELSE {}

\* set_usb_output_data_blks with p2o audio enabled: read_space and read on
\* the p2o_audio ring
OutputHandlerUses ==
  IF pc_audio = "cb_out_submit" /\ options[OPT_P2O_AUDIO]
  THEN {"read_space", "read", "p2o_audio"} ELSE {}

\* cb_xfr_in_midi: get_time once event.time is sampled, write_space on the
\* o2p_midi ring for the events that pass the filter
MidiInUses ==
  IF event_time # <<>> THEN {"get_time", "write_space", "o2p_midi"} ELSE {}

\* run_p2o_midi: get_time before its loop, read_space on the p2o_midi ring
\* at the head of the accumulation loop, read inside it
PacingUses ==
  IF pc_midi = "init" THEN {"get_time"}
  ELSE IF pc_midi = "acc" THEN {"read_space", "read", "p2o_midi"}
  ELSE {}

\* C26: once ow_engine_activate has returned OW_OK, the workers and the
\* callbacks use no context member (callback, ring reference, DLL object)
\* other than those activate has checked for the enabled options.
C26_OnlyCheckedMembersUsed ==
  Active
    => (InputHandlerUses \cup DllUses \cup ResyncUses \cup OutputHandlerUses
          \cup MidiInUses \cup PacingUses) \subseteq CheckedMembers(context.options)

\* activated for o2p MIDI alone, the audio-in handler is past its status gate
\* and about to call read_space, write_space and write on the o2p_audio ring
C26_InputHandlerWithoutO2PAudio ==
  /\ Active
  /\ context.options = {OPT_O2P_MIDI}
  /\ pc_audio = "cb_in_write"
  /\ in_status = OW_ENGINE_STATUS_RUN

====
